---- MODULE Spec2Model ----
(***************************************************************************)
(* Time-of-Concentration engine of hydro-suite-standalone:                 *)
(* tc_calculator_tool.py and dem_extraction.py.                            *)
(*                                                                         *)
(* Number representation.  Python floats that the code compares with       *)
(* thresholds are exact fixed-point integers:                              *)
(*   slope in ft/ft     unit 0.00001   (0.002 is 200)                      *)
(*   slope in percent   unit 0.01 %    (2.0 % is 200)                      *)
(*   length             unit 1 ft                                          *)
(*   runoff coeff. C    unit 0.01      (1.1 is 110)                        *)
(*   Manning's n        unit 0.001     (0.02 is 20)                        *)
(*   curve number CN    unit 1                                             *)
(*   TC in minutes      unit 0.01 min  (5.0 min is 500)                    *)
(* Floats that come out of the power formulas are values of a logarithmic  *)
(* number system: a sign and log2 of the magnitude in units of 1/1024,     *)
(* so that **, * and / are computed, not assumed.                          *)
(***************************************************************************)
EXTENDS Integers, Sequences, FiniteSets, TLC

(***************************************************************************)
(* Python float arithmetic: the values produced by **, *, / and +.         *)
(***************************************************************************)

\* 1.0 in the log2 fixed point (10 fractional bits).
LgOne == 2^10

\* 1.0 in the mantissa fixed point (14 fractional bits).
MantOne == 2^14

RECURSIVE FloorLog2(_)
FloorLog2(n) == IF n < 2 THEN 0 ELSE 1 + FloorLog2(n \div 2)

\* Mantissa of n >= 1 in [MantOne, 2*MantOne).
Mantissa(n) ==
    LET ip == FloorLog2(n)
    IN  IF ip <= 14 THEN n * 2^(14 - ip) ELSE n \div 2^(ip - 14)

\* Fractional bits of log2 of a mantissa m, by repeated squaring.
RECURSIVE FracLog2(_, _)
FracLog2(m, bits) ==
    IF bits = 0 THEN 0
    ELSE LET sq == (m * m) \div MantOne
         IN  IF sq >= 2 * MantOne
             THEN 2^(bits - 1) + FracLog2(sq \div 2, bits - 1)
             ELSE FracLog2(sq, bits - 1)

\* log2(n) for an integer n >= 1, in units of 1/1024.
Log2Q(n) == FloorLog2(n) * LgOne + FracLog2(Mantissa(n), 10)

\* 2^(2^-i) for i = 1..10, in the mantissa fixed point.
Exp2Table == <<23170, 19484, 17867, 17109, 16743, 16562, 16473, 16428, 16406, 16395>>

\* 2^(fr/1024) for 0 <= fr < 1024, in the mantissa fixed point.
RECURSIVE Exp2Frac(_, _)
Exp2Frac(fr, i) ==
    IF i > 10 THEN MantOne
    ELSE LET rest == Exp2Frac(fr, i + 1)
         IN  IF (fr \div 2^(10 - i)) % 2 = 1
             THEN (rest * Exp2Table[i]) \div MantOne
             ELSE rest

\* round(2^(lg/1024) * MantOne) for lg <= 16 * 1024; 0 on underflow.
Exp2Q(lg) ==
    LET ip == lg \div LgOne
        m  == Exp2Frac(lg % LgOne, 1)
    IN  IF ip >= 0 THEN m * 2^ip
        ELSE IF ip < -15 THEN 0
        ELSE m \div 2^(-ip)

\* A float: kind "f" with sign sgn in {-1,0,1} and lg = log2|x| (0 when x = 0);
\* kind "complex" is a Python complex number, kind "raise" a raised exception.
FZero == [kind |-> "f", sgn |-> 0, lg |-> 0]

FComplex == [kind |-> "complex", sgn |-> 0, lg |-> 0]

FRaise == [kind |-> "raise", sgn |-> 0, lg |-> 0]

FNone == [kind |-> "None", sgn |-> 0, lg |-> 0]

Sign(x) == IF x > 0 THEN 1 ELSE IF x < 0 THEN -1 ELSE 0

Abs(x) == IF x < 0 THEN -x ELSE x

\* The float num/den of two integers, den > 0.
FromRat(num, den) ==
    IF num = 0 THEN FZero
    ELSE [kind |-> "f", sgn |-> Sign(num), lg |-> Log2Q(Abs(num)) - Log2Q(den)]

IsFloat(x) == x.kind = "f"

\* x * y
FMul(x, y) ==
    IF x.kind = "raise" \/ y.kind = "raise" THEN FRaise
    ELSE IF x.kind = "complex" \/ y.kind = "complex" THEN FComplex
    ELSE IF x.sgn = 0 \/ y.sgn = 0 THEN FZero
    ELSE [kind |-> "f", sgn |-> x.sgn * y.sgn, lg |-> x.lg + y.lg]

\* x / y: ZeroDivisionError when y is 0.0
FDiv(x, y) ==
    IF x.kind = "raise" \/ y.kind = "raise" THEN FRaise
    ELSE IF y.kind = "f" /\ y.sgn = 0 THEN FRaise
    ELSE IF x.kind = "complex" \/ y.kind = "complex" THEN FComplex
    ELSE IF x.sgn = 0 THEN FZero
    ELSE [kind |-> "f", sgn |-> x.sgn * y.sgn, lg |-> x.lg - y.lg]

\* x ** (en/ed) for a positive non-integer exponent en/ed: a negative base
\* gives a complex number, 0.0 gives 0.0.
FPow(x, en, ed) ==
    IF x.kind # "f" THEN x
    ELSE IF x.sgn = 0 THEN FZero
    ELSE IF x.sgn < 0 THEN FComplex
    ELSE [kind |-> "f", sgn |-> 1, lg |-> (x.lg * en) \div ed]

\* x + y for floats x, y >= 0
FAdd(x, y) ==
    IF x.kind = "raise" \/ y.kind = "raise" THEN FRaise
    ELSE IF x.kind = "complex" \/ y.kind = "complex" THEN FComplex
    ELSE IF x.sgn = 0 THEN y
    ELSE IF y.sgn = 0 THEN x
    ELSE LET hi == IF x.lg >= y.lg THEN x.lg ELSE y.lg
             lo == IF x.lg >= y.lg THEN y.lg ELSE x.lg
         IN  [kind |-> "f", sgn |-> 1,
              lg |-> hi + Log2Q(MantOne + Exp2Q(lo - hi)) - 14 * LgOne]

\* x < y on floats (TypeError for a complex operand)
FLess(x, y) ==
    IF x.sgn # y.sgn THEN x.sgn < y.sgn
    ELSE IF x.sgn = 0 THEN FALSE
    ELSE IF x.sgn > 0 THEN x.lg < y.lg
    ELSE x.lg > y.lg

\* x <= 0 as the calculators test it: "raise" stands for the TypeError of
\* comparing a complex number.
FLeqZero(x) == x.sgn <= 0

\* round(x * scale) of a float x, scale a positive integer.
FToFixed(x, scale) ==
    IF x.sgn = 0 THEN 0
    ELSE LET e == x.lg + Log2Q(scale)
         IN  x.sgn * ((Exp2Q(e - 14 * LgOne + LgOne) + 1) \div 2)

(***************************************************************************)
(* Units and their conversions.                                            *)
(***************************************************************************)

\* slope_pct / 100.0: percent (unit 0.01 %) to ft/ft (unit 0.00001)
PctToFtFt(slope_pct) == slope_pct * 10

\* slope_ftft * 100.0: ft/ft (unit 0.00001) to percent (unit 0.01 %)
FtFtToPct(slope_ftft) == slope_ftft \div 10

\* The float of a slope in ft/ft and of a slope in percent.
FtFtF(slope_ftft) == FromRat(slope_ftft, 100000)

PctF(slope_pct) == FromRat(slope_pct, 100)

\* The float of a TC given in 0.01 min.
MinutesF(centi) == FromRat(centi, 100)

(***************************************************************************)
(* Flat terrain constants, tc_calculator_tool.py 84-102.                   *)
(***************************************************************************)
MIN_SLOPE_THRESHOLD == 200

TRANSITIONAL_SLOPE_UPPER == 300

LOW_SLOPE_ADJUSTMENT == 50

MIN_TC_PAVED == 500

MIN_TC_RURAL == 1000

MIN_TC_DEFAULT == 600

MAX_SHEET_FLOW_LENGTH == 300

\* str.lower() on the land-type strings of the model.
Lower(s) ==
    CASE s = "Paved" -> "paved"
      [] s = "RURAL" -> "rural"
      [] s = "Urban" -> "urban"
      [] OTHER -> s

(***************************************************************************)
(* Flat terrain adjustment functions.                                      *)
(***************************************************************************)

\* Mutant: the transitional band closed at its upper end (<= for <).
apply_slope_adjustment_le(slope_ftft) ==
    IF slope_ftft < 0
    THEN [slope |-> LOW_SLOPE_ADJUSTMENT, adjusted |-> TRUE, warning |-> "Adverse slope"]
    ELSE IF slope_ftft < MIN_SLOPE_THRESHOLD
    THEN [slope |-> slope_ftft + LOW_SLOPE_ADJUSTMENT, adjusted |-> TRUE,
          warning |-> "Low slope"]
    ELSE IF slope_ftft <= TRANSITIONAL_SLOPE_UPPER
    THEN [slope |-> slope_ftft, adjusted |-> FALSE, warning |-> "Transitional slope"]
    ELSE [slope |-> slope_ftft, adjusted |-> FALSE, warning |-> "None"]

\* Mutant: the low-slope band reaches to twice the threshold, so a raised
\* slope can land at or above the transitional band and be raised again.
apply_slope_adjustment_wide(slope_ftft) ==
    IF slope_ftft < 0
    THEN [slope |-> LOW_SLOPE_ADJUSTMENT, adjusted |-> TRUE, warning |-> "Adverse slope"]
    ELSE IF slope_ftft < 2 * MIN_SLOPE_THRESHOLD
    THEN [slope |-> slope_ftft + LOW_SLOPE_ADJUSTMENT, adjusted |-> TRUE,
          warning |-> "Low slope"]
    ELSE [slope |-> slope_ftft, adjusted |-> FALSE, warning |-> "None"]

\* tc_calculator_tool.apply_slope_adjustment: (adjusted_slope, adjusted, warning)
apply_slope_adjustment(slope_ftft) ==
    IF slope_ftft < 0
    THEN [slope |-> LOW_SLOPE_ADJUSTMENT, adjusted |-> TRUE, warning |-> "Adverse slope"]
    ELSE IF slope_ftft < MIN_SLOPE_THRESHOLD
    THEN [slope |-> slope_ftft + LOW_SLOPE_ADJUSTMENT, adjusted |-> TRUE,
          warning |-> "Low slope"]
    ELSE IF slope_ftft < TRANSITIONAL_SLOPE_UPPER
    THEN [slope |-> slope_ftft, adjusted |-> FALSE, warning |-> "Transitional slope"]
    ELSE [slope |-> slope_ftft, adjusted |-> FALSE, warning |-> "None"]

\* Mutant: no branch for an adverse slope, which then takes the low-slope one.
DEM_apply_slope_adjustment_noadverse(slope_ftft) ==
    IF slope_ftft < MIN_SLOPE_THRESHOLD
    THEN [slope |-> slope_ftft + LOW_SLOPE_ADJUSTMENT, adjusted |-> TRUE,
          warning |-> "Low slope"]
    ELSE IF slope_ftft < TRANSITIONAL_SLOPE_UPPER
    THEN [slope |-> slope_ftft, adjusted |-> FALSE, warning |-> "Transitional slope"]
    ELSE [slope |-> slope_ftft, adjusted |-> FALSE, warning |-> "None"]

\* dem_extraction.DEMFlowpathExtractor.apply_slope_adjustment
DEM_apply_slope_adjustment(slope_ftft) ==
    IF slope_ftft < 0
    THEN [slope |-> LOW_SLOPE_ADJUSTMENT, adjusted |-> TRUE,
          warning |-> "Adverse slope detected"]
    ELSE IF slope_ftft < MIN_SLOPE_THRESHOLD
    THEN [slope |-> slope_ftft + LOW_SLOPE_ADJUSTMENT, adjusted |-> TRUE,
          warning |-> "Low slope"]
    ELSE IF slope_ftft < TRANSITIONAL_SLOPE_UPPER
    THEN [slope |-> slope_ftft, adjusted |-> FALSE, warning |-> "Transitional slope"]
    ELSE [slope |-> slope_ftft, adjusted |-> FALSE, warning |-> "None"]

\* Mutant: the rural class falls through to the default minimum.
min_tc_of_norural(land_type) ==
    IF Lower(land_type) \in {"paved", "urban", "impervious", "commercial"}
    THEN MIN_TC_PAVED
    ELSE MIN_TC_DEFAULT

\* The minimum TC (0.01 min) tc_calculator_tool.apply_tc_minimum selects.
min_tc_of(land_type) ==
    IF Lower(land_type) \in {"paved", "urban", "impervious", "commercial"}
    THEN MIN_TC_PAVED
    ELSE IF Lower(land_type) \in {"rural", "undeveloped", "natural", "woods", "forest"}
    THEN MIN_TC_RURAL
    ELSE MIN_TC_DEFAULT

\* The minimum TC (0.01 min) DEMFlowpathExtractor.apply_tc_minimum selects.
DEM_min_tc_of(land_type) ==
    IF Lower(land_type) \in {"paved", "urban", "impervious"}
    THEN MIN_TC_PAVED
    ELSE IF Lower(land_type) \in {"rural", "undeveloped", "natural"}
    THEN MIN_TC_RURAL
    ELSE MIN_TC_DEFAULT

\* tc_calculator_tool.apply_tc_minimum: (adjusted_tc, was_adjusted, warning)
apply_tc_minimum(tc_minutes, land_type) ==
    LET min_tc == MinutesF(min_tc_of(land_type))
    IN  IF FLess(tc_minutes, min_tc)
        THEN [tc |-> min_tc, adjusted |-> TRUE, warning |-> "below minimum"]
        ELSE [tc |-> tc_minutes, adjusted |-> FALSE, warning |-> "None"]

\* Mutant: the test is tc_minutes <= min_tc.
DEM_apply_tc_minimum_le(tc_minutes, land_type) ==
    LET min_tc == MinutesF(DEM_min_tc_of(land_type))
    IN  IF ~FLess(min_tc, tc_minutes)
        THEN [tc |-> min_tc, adjusted |-> TRUE, warning |-> "below minimum"]
        ELSE [tc |-> tc_minutes, adjusted |-> FALSE, warning |-> "None"]

\* dem_extraction.DEMFlowpathExtractor.apply_tc_minimum
DEM_apply_tc_minimum(tc_minutes, land_type) ==
    LET min_tc == MinutesF(DEM_min_tc_of(land_type))
    IN  IF FLess(tc_minutes, min_tc)
        THEN [tc |-> min_tc, adjusted |-> TRUE, warning |-> "below minimum"]
        ELSE [tc |-> tc_minutes, adjusted |-> FALSE, warning |-> "None"]

(***************************************************************************)
(* Hydraulic calculations.  Depth, width and side slope in 0.1, pipe       *)
(* diameter in 0.01 ft.                                                    *)
(***************************************************************************)

\* calc_hydraulic_radius: area / wetted perimeter of a trapezoid
calc_hydraulic_radius(depth, bottom_width, side_slope) ==
    IF depth <= 0 \/ bottom_width <= 0 THEN FromRat(1, 1)
    ELSE LET area == FromRat((20 * bottom_width + 2 * side_slope * depth) * depth, 2000)
             side_length == FMul(FromRat(depth, 10),
                                 FPow(FromRat(100 + side_slope * side_slope, 100), 1, 2))
             wetted_perimeter == FAdd(FromRat(bottom_width, 10),
                                      FMul(FromRat(2, 1), side_length))
         IN  IF wetted_perimeter.sgn > 0 THEN FDiv(area, wetted_perimeter)
             ELSE FromRat(1, 1)

\* calc_pipe_hydraulic_radius: R = D/4
calc_pipe_hydraulic_radius(diameter) ==
    IF diameter > 0 THEN FromRat(diameter, 400) ELSE FromRat(375, 1000)

(***************************************************************************)
(* TR-55 segment travel time calculators (minutes).  Rainfall in 0.1 in.   *)
(***************************************************************************)

Min(a, b) == IF a < b THEN a ELSE b

\* SegmentTravelTimeCalculator.sheet_flow_time
sheet_flow_time(length_ft, slope_pct, mannings_n, rainfall_intensity) ==
    LET length == Min(length_ft, MAX_SHEET_FLOW_LENGTH)
    IN  IF length <= 0 \/ slope_pct <= 0 \/ mannings_n <= 0 THEN FZero
        ELSE LET slope_ftft == PctToFtFt(slope_pct)
                 tt_hours ==
                     FDiv(FMul(FromRat(7, 1000),
                               FPow(FromRat(mannings_n * length, 1000), 8, 10)),
                          FMul(FPow(FromRat(rainfall_intensity, 10), 5, 10),
                               FPow(FtFtF(slope_ftft), 4, 10)))
             IN  FMul(tt_hours, FromRat(60, 1))

\* SegmentTravelTimeCalculator.shallow_concentrated_time
shallow_concentrated_time(length_ft, slope_pct, surface_type) ==
    IF length_ft <= 0 \/ slope_pct <= 0 THEN FZero
    ELSE LET slope_ftft == PctToFtFt(slope_pct)
             velocity_fps ==
                 IF surface_type = "PAVED"
                 THEN FMul(FromRat(20328, 1000), FPow(FtFtF(slope_ftft), 5, 10))
                 ELSE FMul(FromRat(16135, 1000), FPow(FtFtF(slope_ftft), 5, 10))
         IN  IF velocity_fps.kind # "f" THEN FRaise
             ELSE IF FLeqZero(velocity_fps) THEN FZero
             ELSE FDiv(FDiv(FromRat(length_ft, 1), velocity_fps), FromRat(60, 1))

\* Mutant: the guard does not test mannings_n.
channel_flow_time_noguard(length_ft, slope_pct, mannings_n, hydraulic_radius) ==
    IF length_ft <= 0 \/ slope_pct <= 0 THEN FZero
    ELSE LET slope_ftft == PctToFtFt(slope_pct)
             velocity_fps ==
                 FMul(FMul(FDiv(FromRat(149, 100), FromRat(mannings_n, 1000)),
                          FPow(hydraulic_radius, 2, 3)),
                      FPow(FtFtF(slope_ftft), 5, 10))
         IN  IF velocity_fps.kind # "f" THEN FRaise
             ELSE IF FLeqZero(velocity_fps) THEN FZero
             ELSE FDiv(FDiv(FromRat(length_ft, 1), velocity_fps), FromRat(60, 1))

\* SegmentTravelTimeCalculator.channel_flow_time; hydraulic_radius is a float
channel_flow_time(length_ft, slope_pct, mannings_n, hydraulic_radius) ==
    IF length_ft <= 0 \/ slope_pct <= 0 \/ mannings_n <= 0 THEN FZero
    ELSE LET slope_ftft == PctToFtFt(slope_pct)
             velocity_fps ==
                 FMul(FMul(FDiv(FromRat(149, 100), FromRat(mannings_n, 1000)),
                          FPow(hydraulic_radius, 2, 3)),
                      FPow(FtFtF(slope_ftft), 5, 10))
         IN  IF velocity_fps.kind # "f" THEN FRaise
             ELSE IF FLeqZero(velocity_fps) THEN FZero
             ELSE FDiv(FDiv(FromRat(length_ft, 1), velocity_fps), FromRat(60, 1))

\* SegmentTravelTimeCalculator.pipe_flow_time
pipe_flow_time(length_ft, slope_pct, mannings_n, diameter_ft) ==
    IF length_ft <= 0 \/ slope_pct <= 0 \/ diameter_ft <= 0 THEN FZero
    ELSE channel_flow_time(length_ft, slope_pct, mannings_n, FromRat(diameter_ft, 400))

\* Mutant: the length is clamped at the 100 ft the docstring recommends.
TR55_calculate_sheet_flow_time_clamp100(length_ft, slope_pct, mannings_n, p2_rainfall) ==
    LET length == Min(length_ft, 100)
    IN  IF length <= 0 \/ slope_pct <= 0 \/ mannings_n <= 0 THEN FZero
        ELSE LET slope_ftft == IF PctToFtFt(slope_pct) < MIN_SLOPE_THRESHOLD
                               THEN PctToFtFt(slope_pct) + LOW_SLOPE_ADJUSTMENT
                               ELSE PctToFtFt(slope_pct)
                 tt_hours ==
                     FDiv(FMul(FromRat(7, 1000),
                               FPow(FromRat(mannings_n * length, 1000), 8, 10)),
                          FMul(FPow(FromRat(p2_rainfall, 10), 5, 10),
                               FPow(FtFtF(slope_ftft), 4, 10)))
             IN  FMul(tt_hours, FromRat(60, 1))

\* TR55VelocityDEMCalculator.calculate_sheet_flow_time (dem_extraction.py)
TR55_calculate_sheet_flow_time(length_ft, slope_pct, mannings_n, p2_rainfall) ==
    LET length == Min(length_ft, MAX_SHEET_FLOW_LENGTH)
    IN  IF length <= 0 \/ slope_pct <= 0 \/ mannings_n <= 0 THEN FZero
        ELSE LET slope_ftft == IF PctToFtFt(slope_pct) < MIN_SLOPE_THRESHOLD
                               THEN PctToFtFt(slope_pct) + LOW_SLOPE_ADJUSTMENT
                               ELSE PctToFtFt(slope_pct)
                 tt_hours ==
                     FDiv(FMul(FromRat(7, 1000),
                               FPow(FromRat(mannings_n * length, 1000), 8, 10)),
                          FMul(FPow(FromRat(p2_rainfall, 10), 5, 10),
                               FPow(FtFtF(slope_ftft), 4, 10)))
             IN  FMul(tt_hours, FromRat(60, 1))

\* sheet_flow_time of validation_calculations.py: the length limit is the
\* literal 300.0.
VAL_sheet_flow_time(length_ft, slope_pct, mannings_n, p2_rainfall) ==
    LET length == Min(length_ft, 300)
    IN  IF length <= 0 \/ slope_pct <= 0 \/ mannings_n <= 0 THEN FZero
        ELSE LET slope_ftft == PctToFtFt(slope_pct)
                 tt_hours ==
                     FDiv(FMul(FromRat(7, 1000),
                               FPow(FromRat(mannings_n * length, 1000), 8, 10)),
                          FMul(FPow(FromRat(p2_rainfall, 10), 5, 10),
                               FPow(FtFtF(slope_ftft), 4, 10)))
             IN  FMul(tt_hours, FromRat(60, 1))

(***************************************************************************)
(* Whole-watershed TC methods (minutes).                                   *)
(***************************************************************************)

\* KirpichMethod.calculate
Kirpich_calculate(length_ft, slope_percent) ==
    IF length_ft <= 0 \/ slope_percent <= 0 THEN FZero
    ELSE LET slope_ftft == PctToFtFt(slope_percent)
         IN  FDiv(FMul(FromRat(78, 10000), FPow(FromRat(length_ft, 1), 77, 100)),
                  FPow(FtFtF(slope_ftft), 385, 1000))

\* FAAMethod.calculate
FAA_calculate(length_ft, slope_percent, c_value) ==
    IF length_ft <= 0 \/ slope_percent <= 0 THEN FZero
    ELSE FDiv(FMul(FMul(FromRat(18, 10), FromRat(110 - c_value, 100)),
                   FPow(FromRat(length_ft, 1), 5, 10)),
              FPow(PctF(slope_percent), 33, 100))

\* The curve number SCSLagMethod.calculate computes with.
SCSLag_cn(cn) == IF cn <= 0 \/ cn > 100 THEN 75 ELSE cn

\* SCSLagMethod.calculate
SCSLag_calculate(length_ft, slope_percent, cn_in) ==
    IF length_ft <= 0 \/ slope_percent <= 0 THEN FZero
    ELSE LET cn == SCSLag_cn(cn_in)
             raw_storage == FromRat(1000 - 9 * cn, cn)
             storage_term == IF raw_storage.sgn <= 0 THEN FromRat(1, 10) ELSE raw_storage
             lag_hours ==
                 FDiv(FMul(FPow(FromRat(length_ft, 1), 8, 10), FPow(storage_term, 7, 10)),
                      FMul(FromRat(1900, 1), FPow(PctF(slope_percent), 5, 10)))
         IN  FMul(FDiv(lag_hours, FromRat(6, 10)), FromRat(60, 1))

\* SCSLagDEMCalculator.MIN_CN and MAX_CN
SCS_MIN_CN == 50

SCS_MAX_CN == 95

\* dem_extraction.SCSLagDEMCalculator.calculate: tc_min of the result and
\* the slope (0.01 %) the formula was computed with.
SCSLagDEM_calculate(length_ft, slope_pct_in, cn_in, apply_adjustments) ==
    LET cn == IF cn_in < SCS_MIN_CN /\ cn_in <= 0 THEN SCS_MIN_CN
              ELSE IF cn_in > SCS_MAX_CN /\ cn_in > 100 THEN SCS_MAX_CN
              ELSE cn_in
        adj == DEM_apply_slope_adjustment(PctToFtFt(slope_pct_in))
        adjusted_slope == apply_adjustments /\ adj.adjusted
        slope_pct == IF adjusted_slope THEN FtFtToPct(adj.slope) ELSE slope_pct_in
        raw_retention == FromRat(1000 - 9 * cn, cn)
        s_retention == IF raw_retention.sgn <= 0 THEN FromRat(1, 10) ELSE raw_retention
        lag_hr ==
            IF slope_pct > 0 /\ length_ft > 0
            THEN FDiv(FMul(FPow(FromRat(length_ft, 1), 8, 10), FPow(s_retention, 7, 10)),
                      FMul(FromRat(1900, 1), FPow(FtFtF(PctToFtFt(slope_pct)), 5, 10)))
            ELSE FZero
        tc_raw == IF lag_hr.sgn > 0
                  THEN FMul(FDiv(lag_hr, FromRat(6, 10)), FromRat(60, 1))
                  ELSE MinutesF(MIN_TC_DEFAULT)
        min == DEM_apply_tc_minimum(tc_raw, "rural")
    IN  [tc_min |-> IF apply_adjustments THEN min.tc ELSE tc_raw,
         slope_pct |-> slope_pct,
         adjusted_slope |-> adjusted_slope,
         adjusted_tc |-> apply_adjustments /\ min.adjusted,
         valid |-> slope_pct > 0 /\ length_ft > 0]

\* validation_calculations.scs_lag_tc: 1000.0 / cn raises ZeroDivisionError
\* for cn = 0.
VAL_scs_lag_tc(length_ft, slope_pct, cn) ==
    IF length_ft <= 0 \/ slope_pct <= 0 THEN FZero
    ELSE IF cn = 0 THEN FRaise
    ELSE LET slope_ftft == PctToFtFt(slope_pct)
             storage_term == IF cn < 0 \/ 1000 - 9 * cn <= 0 THEN FromRat(1, 10)
                             ELSE FromRat(1000 - 9 * cn, cn)
             lag_hours ==
                 FDiv(FMul(FPow(FromRat(length_ft, 1), 8, 10), FPow(storage_term, 7, 10)),
                      FMul(FromRat(1900, 1), FPow(FtFtF(slope_ftft), 5, 10)))
         IN  FMul(FDiv(lag_hours, FromRat(6, 10)), FromRat(60, 1))

\* KerbyMethod.calculate
Kerby_calculate(length_ft, slope_percent, n) ==
    IF length_ft <= 0 \/ slope_percent <= 0 THEN FZero
    ELSE LET slope_ftft == PctToFtFt(slope_percent)
         IN  FDiv(FMul(FromRat(144, 100), FPow(FromRat(n * length_ft, 1000), 467, 1000)),
                  FPow(FtFtF(slope_ftft), 235, 1000))

\* The comparison loop's call: method.calculate(length, slope, **kwargs) with
\* kwargs built from the method's param_name.
MethodCalculate(method_id, length_ft, slope_pct, cn, c_value, mannings_n) ==
    CASE method_id = "kirpich" -> Kirpich_calculate(length_ft, slope_pct)
      [] method_id = "faa" -> FAA_calculate(length_ft, slope_pct, c_value)
      [] method_id = "scs_lag" -> SCSLag_calculate(length_ft, slope_pct, cn)
      [] method_id = "kerby" -> Kerby_calculate(length_ft, slope_pct, mannings_n)

(***************************************************************************)
(* Bounds of the inputs.                                                   *)
(***************************************************************************)
MaxSlopeFtFt == 400

MaxTcCenti == 1200

MaxLengthFt == 500

\* Slopes in ft/ft (unit 0.00001): adverse, low, transitional and normal.
SlopeInputs == -100 .. MaxSlopeFtFt

\* TC values in 0.01 min, every quarter minute.
TcInputs == {t \in -200 .. MaxTcCenti : t % 25 = 0}

LandTypes ==
    {"paved", "urban", "impervious", "commercial", "rural", "undeveloped", "natural",
     "woods", "forest", "residential", "Paved", "RURAL", "Urban", ""}

MethodIds == {"kirpich", "faa", "scs_lag", "kerby"}

SegmentKinds == {"sheet", "shallow", "channel", "pipe"}

\* Arguments of the segment calculators: length ft, slope 0.01 %, n 0.001,
\* pipe diameter 0.01 ft.
SegmentInputs ==
    [kind : SegmentKinds,
     length_ft : {-10, 0, 100, MAX_SHEET_FLOW_LENGTH, MaxLengthFt},
     slope_pct : {-50, 0, 10, 200},
     mannings_n : {-10, 0, 13, 240},
     diameter_ft : {-50, 0, 150}]

\* Arguments of the sheet flow calculators: lengths around the 300 ft limit,
\* slopes around 0.2 %, rainfall P2 in 0.1 in.
SheetInputs ==
    [length_ft : {-10, 0, 100, MAX_SHEET_FLOW_LENGTH, MAX_SHEET_FLOW_LENGTH + 1,
                  MaxLengthFt},
     slope_pct : {0, 10, 19, 20, 200},
     mannings_n : {0, 11, 240},
     p2_rainfall : {25, 35}]

\* Arguments of the whole-watershed methods.
\* Arguments of the SCS Lag implementations: slope 0.01 %.
ScsInputs ==
    [length_ft : {0, 100, 2100, 26000},
     slope_pct : {0, 10, 50, 200, 6400},
     cn : {0, 50, 75, 95, 120},
     apply_adjustments : BOOLEAN]

MethodInputs ==
    [method : MethodIds,
     length_ft : {-10, 0, 1, 2100, 26000},
     slope_pct : {-50, 0, 1, 200, 6400},
     cn : {0, 75, 100, 120},
     c_value : {30, 95, 110, 120},
     mannings_n : {-10, 0, 400}]

(***************************************************************************)
(* The inputs of the TC calculator tool: attribute values, layers, tables. *)
(***************************************************************************)
\* Most features of a layer, rows of the manual table, runs of a session.
MaxFeatures == 2

MaxManualRows == 2

MaxRuns == 2

\* An attribute value or the text of a table cell: NULL, a number (its text
\* when it stands in a table), or text that is not a number.
Null == [kind |-> "null", val |-> 0, text |-> ""]

Num(v) == [kind |-> "num", val |-> v, text |-> ""]

Text(s) == [kind |-> "text", val |-> 0, text |-> s]

\* Python truth value of an attribute: None, 0 and '' are false.
Falsy(cell) ==
    \/ cell.kind = "null"
    \/ cell.kind = "num" /\ cell.val = 0
    \/ cell.kind = "text" /\ cell.text = ""

\* float(cell or default_value) raises ValueError on text that is no number.
FloatOrRaises(cell) == ~Falsy(cell) /\ cell.kind = "text"

FloatOr(cell, default_value) == IF Falsy(cell) THEN default_value ELSE cell.val

\* str.upper() on the flow types that occur.
Upper(s) ==
    CASE s = "Sheet" -> "SHEET"
      [] s = "Sheet Flow" -> "SHEET FLOW"
      [] s = "Shallow Concentrated" -> "SHALLOW CONCENTRATED"
      [] s = "shallow_concentrated" -> "SHALLOW_CONCENTRATED"
      [] s = "Channel" -> "CHANNEL"
      [] s = "Pipe" -> "PIPE"
      [] s = "Concrete Pipe" -> "CONCRETE PIPE"
      [] s = "Gutter" -> "GUTTER"
      [] OTHER -> s

\* sub in s, for the keywords the dispatch looks for and the upper-case
\* flow types that occur.
Contains(s, sub) ==
    CASE sub = "SHEET" -> s \in {"SHEET", "SHEET FLOW"}
      [] sub = "SHALLOW" -> s \in {"SHALLOW CONCENTRATED", "SHALLOW_CONCENTRATED"}
      [] sub = "CONC" ->
             s \in {"SHALLOW CONCENTRATED", "SHALLOW_CONCENTRATED", "CONCRETE PIPE"}
      [] sub = "PIPE" -> s \in {"PIPE", "CONCRETE PIPE"}
      [] OTHER -> FALSE

\* f'SB-{k:03d}'
SBName(k) ==
    CASE k = 1 -> "SB-001"
      [] k = 2 -> "SB-002"
      [] k = 3 -> "SB-003"
      [] OTHER -> "SB-004"

\* Flow_Type attribute values: the four tags in several spellings, NULL,
\* the empty string and other texts.
FlowTypeValues ==
    {Null, Text(""), Text("Sheet"), Text("SHEET"), Text("Sheet Flow"),
     Text("Shallow Concentrated"), Text("shallow_concentrated"),
     Text("SHALLOW_CONCENTRATED"), Text("Channel"), Text("CHANNEL"), Text("Pipe"),
     Text("PIPE"), Text("Concrete Pipe"), Text("Gutter")}

\* Features given to the dispatch on the flow type.
DispatchInputs ==
    [subbasin_id : {"SB-001"},
     length : {Num(100), Num(MaxLengthFt)},
     slope : {Num(10), Num(200)},
     mannings_n : {Num(13), Num(240)},
     flow_type : FlowTypeValues]

\* Features of a flowpath layer: length ft, slope 0.01 %, Manning's n 0.001.
FlowpathFeatures ==
    {[subbasin_id |-> "SB-001", length |-> Num(100), slope |-> Num(200),
      mannings_n |-> Num(240), flow_type |-> Text("Sheet")],
     [subbasin_id |-> "SB-001", length |-> Num(1000), slope |-> Num(100),
      mannings_n |-> Num(35), flow_type |-> Null],
     [subbasin_id |-> "SB-002", length |-> Num(200), slope |-> Num(300),
      mannings_n |-> Null, flow_type |-> Text("Shallow Concentrated")],
     [subbasin_id |-> "SB-002", length |-> Num(500), slope |-> Text("abc"),
      mannings_n |-> Num(35), flow_type |-> Text("Channel")],
     [subbasin_id |-> "SB-003", length |-> Num(0), slope |-> Num(100),
      mannings_n |-> Num(13), flow_type |-> Text("Pipe")]}

SeqsUpTo(S, n) == UNION {[1 .. k -> S] : k \in 0 .. n}

\* No layer selected in a LayerFieldSelector or a layer combo box.
NoLayer == [selected |-> FALSE, std_fields |-> FALSE, units |-> 2, features |-> <<>>]

\* The valid vector layers the flowpath selector can be given.  std_fields:
\* the field names are those on_layer_changed selects by itself.
FlowpathLayers ==
    {[selected |-> TRUE, std_fields |-> TRUE, units |-> 2, features |-> f] :
        f \in SeqsUpTo(FlowpathFeatures, MaxFeatures)}
    \cup {[selected |-> TRUE, std_fields |-> FALSE, units |-> 2,
           features |-> <<CHOOSE f \in FlowpathFeatures : f.flow_type = Text("Sheet")>>]}

\* Features of a subbasin polygon layer with what the DEM gives for them:
\* geometry "ok", "empty" or "invalid" (QGIS raises when its centroid or
\* boundary is taken); elev_valid: the DEM has values under it; distance
\* from highest point to outlet and bounding box in map units; elevations
\* in 0.001 map units.
SubbasinFeatures ==
    {[subbasin_id |-> "SB-001", cn |-> Num(80), land_type |-> Text("Urban"),
      geometry |-> "ok", elev_valid |-> TRUE, distance |-> 1000,
      high_elev |-> 120000, low_elev |-> 100000, bbox_width |-> 600,
      bbox_height |-> 800],
     [subbasin_id |-> "SB-002", cn |-> Null, land_type |-> Null,
      geometry |-> "ok", elev_valid |-> TRUE, distance |-> 1000,
      high_elev |-> 101000, low_elev |-> 100000, bbox_width |-> 600,
      bbox_height |-> 800],
     [subbasin_id |-> "SB-003", cn |-> Text("n/a"), land_type |-> Text("paved"),
      geometry |-> "ok", elev_valid |-> FALSE, distance |-> 0,
      high_elev |-> 0, low_elev |-> 0, bbox_width |-> 300, bbox_height |-> 400],
     [subbasin_id |-> "SB-004", cn |-> Num(80), land_type |-> Text("woods"),
      geometry |-> "invalid", elev_valid |-> TRUE, distance |-> 0,
      high_elev |-> 0, low_elev |-> 0, bbox_width |-> 30, bbox_height |-> 40],
     [subbasin_id |-> "SB-005", cn |-> Num(80), land_type |-> Null,
      geometry |-> "empty", elev_valid |-> FALSE, distance |-> 0,
      high_elev |-> 0, low_elev |-> 0, bbox_width |-> 0, bbox_height |-> 0]}

\* The polygon layers of the project; units: crs().mapUnits(), 0 meters and
\* 2 feet.
SubbasinLayers ==
    {[selected |-> TRUE, std_fields |-> TRUE, units |-> u, features |-> f] :
        u \in {0, 2}, f \in SeqsUpTo(SubbasinFeatures, MaxFeatures)}

\* ManualEntryTable.add_row: the row added at index row (0-based row = k - 1)
DefaultRow(k) ==
    [subbasin_id |-> SBName(k), length_ft |-> Num(2100), slope_pct |-> Num(200),
     cn |-> Num(75), c_value |-> Num(30), mannings_n |-> Num(400)]

\* What a user types into a cell of the manual table.
ManualEdits ==
    {<<"length_ft", Num(0)>>, <<"length_ft", Text("abc")>>, <<"c_value", Num(120)>>,
     <<"mannings_n", Num(-10)>>, <<"cn", Num(40)>>, <<"cn", Num(120)>>}

\* The rows of the channel geometry table and what a user types into a
\* cell of its columns 1-4: nothing, 0, 3.0 (or 0.30 ft of pipe), a word.
GeometryIds == {"SB-001", "SB-002"}

GeometryColumns == {"channel_depth", "channel_width", "side_slope", "pipe_diameter"}

GeometryTexts == {Text(""), Num(0), Num(30), Text("abc")}

\* What a user types into a cell before the table is saved to a CSV file.
CsvEdits == {<<"length_ft", Num(150)>>, <<"cn", Text("")>>}

\* The output directory before a run wrote into it.
NoOutputFiles ==
    [tc_calculations |-> <<>>, tc_segment_details |-> FALSE,
     tc_dem_extraction_summary |-> FALSE]

(***************************************************************************)
(* State.  The first group holds the arguments and results of the pure     *)
(* functions when they are exercised on their own.                         *)
(***************************************************************************)
VARIABLES
    slope_in,        \* argument of apply_slope_adjustment (ft/ft)
    slope_out,       \* result of tc_calculator_tool.apply_slope_adjustment
    slope_out_dem,   \* result of DEMFlowpathExtractor.apply_slope_adjustment
    tc_in,           \* argument tc_minutes of apply_tc_minimum (0.01 min)
    land_in,         \* argument land_type of apply_tc_minimum
    tc_out,          \* result of tc_calculator_tool.apply_tc_minimum
    tc_out_dem,      \* result of DEMFlowpathExtractor.apply_tc_minimum
    tc_again,        \* result of applying apply_tc_minimum to tc_out
    tc_again_dem,    \* result of applying the DEM copy to tc_out_dem
    seg_in,          \* arguments of a segment travel time calculator
    seg_out,         \* its result
    method_in,       \* arguments of a whole-watershed method
    method_out,      \* its result
    sheet_in,        \* arguments of the sheet flow calculators
    sheet_out,       \* their results, for the length given and for 300 ft
    flow_in,         \* a flowpath feature given to the dispatch on the flow type
    flow_out,        \* the travel time the dispatch computed for it
    scs_in,          \* arguments of the SCS Lag implementations
    scs_out,         \* their results
    slope_again,     \* result of applying apply_slope_adjustment to slope_out
    slope_again_dem, \* result of applying the DEM copy to slope_out_dem
    current_mode,        \* self.current_mode
    use_flowpath_mode,   \* self.use_flowpath_mode
    mode_stack,          \* mode_stack.currentIndex()
    selected_methods,    \* self.selected_methods
    output_dir,          \* output_selector.is_valid()
    flowpath_layer,      \* flowpath_selector.selected_layer
    fields_mapped,       \* the five field combos all hold a field
    manual_table,        \* rows of manual_entry_table
    manual_csv,          \* rows of the CSV file of the manual table, <<>>: no file
    csv_saved,           \* the data the last save_to_csv wrote
    geometry_table,      \* geometry_table.subbasin_geometry
    HAS_DEM_EXTRACTION,  \* the import of dem_extraction succeeded (lines 58-66)
    method_checkboxes,   \* method_checkboxes: method id -> its check box is checked
    geometry_shown,      \* the geometry the R column of each row was computed of
    dem_selected,        \* dem_combo holds a raster layer
    dem_subbasin_layer,  \* layer of dem_subbasin_combo
    dem_land_type_field, \* dem_land_type_field holds a field
    apply_slope_adj,     \* apply_slope_adj_checkbox.isChecked()
    apply_tc_min,        \* apply_tc_min_checkbox.isChecked()
    run_count,           \* calls of run() so far
    run_status,          \* "idle", or how the last run() ended: "ok", "failed"
    run_error,           \* the step of the last run() that raised, or ""
    run_mode,            \* current_mode when the last run() started, or ""
    results,             \* the results dict of the last run(), in insertion order
    output_files,        \* the CSV files in the output directory
    results_table        \* rows of self.results_table

sheetVars == <<sheet_in, sheet_out>>

dispatchVars == <<flow_in, flow_out>>

probeVars == <<scs_in, scs_out, slope_again, slope_again_dem>>

pureVars ==
    <<slope_in, slope_out, slope_out_dem, tc_in, land_in, tc_out, tc_out_dem,
      tc_again, tc_again_dem, seg_in, seg_out, method_in, method_out, sheetVars,
      dispatchVars, probeVars>>

csvVars == <<manual_csv, csv_saved>>

geomVars == <<geometry_table, geometry_shown>>

boxVars == <<method_checkboxes>>

moduleVars == <<HAS_DEM_EXTRACTION>>

toolVars ==
    <<csvVars, geomVars, boxVars, moduleVars, current_mode, use_flowpath_mode, mode_stack, selected_methods, output_dir,
      flowpath_layer, fields_mapped, manual_table, dem_selected, dem_subbasin_layer, dem_land_type_field,
      apply_slope_adj, apply_tc_min, run_count, run_status, run_error, run_mode,
      results, output_files, results_table>>

vars == <<pureVars, toolVars>>

\* The tool after __init__ and create_gui, whatever the import gave.
ToolCreated ==
    /\ current_mode = "flowpath" /\ use_flowpath_mode = TRUE /\ mode_stack = 0
    /\ selected_methods = <<"kirpich", "scs_lag", "faa", "kerby">>
    /\ method_checkboxes =
           [method_id \in MethodIds |->
               method_id \in {"kirpich", "scs_lag", "faa", "kerby"}]
    /\ output_dir = FALSE
    /\ flowpath_layer = NoLayer /\ fields_mapped = FALSE
    /\ manual_table = <<DefaultRow(1)>>
    /\ manual_csv = <<>> /\ csv_saved = <<>>
    /\ geometry_table = <<>> /\ geometry_shown = <<>>
    /\ dem_selected = FALSE /\ dem_subbasin_layer = NoLayer
    /\ dem_land_type_field = FALSE
    /\ apply_slope_adj = TRUE /\ apply_tc_min = TRUE
    /\ run_count = 0 /\ run_status = "idle" /\ run_error = "" /\ run_mode = ""
    /\ results = <<>> /\ output_files = NoOutputFiles /\ results_table = <<>>

\* The tool after __init__ and create_gui in an installation that has
\* dem_extraction.py.
ToolIdle == ToolCreated /\ HAS_DEM_EXTRACTION = TRUE

\* "Not computed yet" for the results above.
NoSlopeResult == [slope |-> 0, adjusted |-> FALSE, warning |-> "pending"]

NoTcResult == [tc |-> FZero, adjusted |-> FALSE, warning |-> "pending"]

NoFloat == [kind |-> "pending", sgn |-> 0, lg |-> 0]

Computed(r) == r.warning # "pending"

\* No feature given to the dispatch yet.
DispatchIdle ==
    /\ flow_in = [subbasin_id |-> "SB-001", length |-> Null, slope |-> Null,
                  mannings_n |-> Null, flow_type |-> Null]
    /\ flow_out = NoFloat

\* The sheet flow calculators not called yet.
NoSheetResult ==
    [tool |-> NoFloat, dem |-> NoFloat, val |-> NoFloat,
     tool_300 |-> NoFloat, dem_300 |-> NoFloat, val_300 |-> NoFloat]

SheetIdle ==
    /\ sheet_in = [length_ft |-> 0, slope_pct |-> 0, mannings_n |-> 0, p2_rainfall |-> 35]
    /\ sheet_out = NoSheetResult

\* The SCS Lag implementations not called yet.
NoScsResult == [tool |-> NoFloat, dem |-> NoFloat, val |-> NoFloat]

ProbeIdle ==
    /\ scs_in = [length_ft |-> 0, slope_pct |-> 0, cn |-> 75,
                 apply_adjustments |-> FALSE]
    /\ scs_out = NoScsResult
    /\ slope_again = NoSlopeResult /\ slope_again_dem = NoSlopeResult

PureIdle ==
    /\ SheetIdle
    /\ DispatchIdle
    /\ ProbeIdle
    /\ slope_in = 0 /\ slope_out = NoSlopeResult /\ slope_out_dem = NoSlopeResult
    /\ tc_in = 0 /\ land_in = "rural"
    /\ tc_out = NoTcResult /\ tc_out_dem = NoTcResult
    /\ tc_again = NoTcResult /\ tc_again_dem = NoTcResult
    /\ seg_in = [kind |-> "sheet", length_ft |-> 0, slope_pct |-> 0, mannings_n |-> 0,
                 diameter_ft |-> 0]
    /\ seg_out = NoFloat
    /\ method_in = [method |-> "kirpich", length_ft |-> 0, slope_pct |-> 0, cn |-> 0,
                    c_value |-> 30, mannings_n |-> 0]
    /\ method_out = NoFloat

(***************************************************************************)
(* The slope adjustment on its own: SpecSlope.                             *)
(***************************************************************************)
SlopeInit ==
    /\ ToolIdle
    /\ SheetIdle
    /\ DispatchIdle
    /\ ProbeIdle
    /\ slope_in \in SlopeInputs
    /\ slope_out = NoSlopeResult /\ slope_out_dem = NoSlopeResult
    /\ tc_in = 0 /\ land_in = "rural"
    /\ tc_out = NoTcResult /\ tc_out_dem = NoTcResult
    /\ tc_again = NoTcResult /\ tc_again_dem = NoTcResult
    /\ seg_in = [kind |-> "sheet", length_ft |-> 0, slope_pct |-> 0, mannings_n |-> 0,
                 diameter_ft |-> 0]
    /\ seg_out = NoFloat
    /\ method_in = [method |-> "kirpich", length_ft |-> 0, slope_pct |-> 0, cn |-> 0,
                    c_value |-> 30, mannings_n |-> 0]
    /\ method_out = NoFloat

AdjustSlopeTool ==
    /\ ~Computed(slope_out)
    /\ slope_out' = apply_slope_adjustment(slope_in)
    /\ UNCHANGED <<slope_in, slope_out_dem, tc_in, land_in, tc_out, tc_out_dem,
                   tc_again, tc_again_dem, seg_in, seg_out, method_in, method_out,
                   sheetVars, dispatchVars, probeVars, toolVars>>

AdjustSlopeDEM ==
    /\ ~Computed(slope_out_dem)
    /\ slope_out_dem' = DEM_apply_slope_adjustment(slope_in)
    /\ UNCHANGED <<slope_in, slope_out, tc_in, land_in, tc_out, tc_out_dem,
                   tc_again, tc_again_dem, seg_in, seg_out, method_in, method_out,
                   sheetVars, dispatchVars, probeVars, toolVars>>

\* The adjustment applied to its own result, as a caller that adjusts an
\* already adjusted slope does (tc_calculator_tool.py lines 2078-2086).
ReadjustSlopeTool ==
    /\ Computed(slope_out) /\ ~Computed(slope_again)
    /\ slope_again' = apply_slope_adjustment(slope_out.slope)
    /\ UNCHANGED <<slope_in, slope_out, slope_out_dem, tc_in, land_in, tc_out,
                   tc_out_dem, tc_again, tc_again_dem, seg_in, seg_out, method_in,
                   method_out, sheetVars, dispatchVars, scs_in, scs_out,
                   slope_again_dem, toolVars>>

ReadjustSlopeDEM ==
    /\ Computed(slope_out_dem) /\ ~Computed(slope_again_dem)
    /\ slope_again_dem' = DEM_apply_slope_adjustment(slope_out_dem.slope)
    /\ UNCHANGED <<slope_in, slope_out, slope_out_dem, tc_in, land_in, tc_out,
                   tc_out_dem, tc_again, tc_again_dem, seg_in, seg_out, method_in,
                   method_out, sheetVars, dispatchVars, scs_in, scs_out,
                   slope_again, toolVars>>

SlopeNext ==
    \/ AdjustSlopeTool
    \/ AdjustSlopeDEM
    \/ ReadjustSlopeTool
    \/ ReadjustSlopeDEM

SpecSlope == SlopeInit /\ [][SlopeNext]_vars

(***************************************************************************)
(* The minimum TC on its own: SpecTc.                                      *)
(***************************************************************************)
TcInit ==
    /\ ToolIdle
    /\ SheetIdle
    /\ DispatchIdle
    /\ ProbeIdle
    /\ tc_in \in TcInputs /\ land_in \in LandTypes
    /\ tc_out = NoTcResult /\ tc_out_dem = NoTcResult
    /\ tc_again = NoTcResult /\ tc_again_dem = NoTcResult
    /\ slope_in = 0 /\ slope_out = NoSlopeResult /\ slope_out_dem = NoSlopeResult
    /\ seg_in = [kind |-> "sheet", length_ft |-> 0, slope_pct |-> 0, mannings_n |-> 0,
                 diameter_ft |-> 0]
    /\ seg_out = NoFloat
    /\ method_in = [method |-> "kirpich", length_ft |-> 0, slope_pct |-> 0, cn |-> 0,
                    c_value |-> 30, mannings_n |-> 0]
    /\ method_out = NoFloat

EnforceMinimumTool ==
    /\ ~Computed(tc_out)
    /\ tc_out' = apply_tc_minimum(MinutesF(tc_in), land_in)
    /\ UNCHANGED <<slope_in, slope_out, slope_out_dem, tc_in, land_in, tc_out_dem,
                   tc_again, tc_again_dem, seg_in, seg_out, method_in, method_out,
                   sheetVars, dispatchVars, probeVars, toolVars>>

EnforceMinimumDEM ==
    /\ ~Computed(tc_out_dem)
    /\ tc_out_dem' = DEM_apply_tc_minimum(MinutesF(tc_in), land_in)
    /\ UNCHANGED <<slope_in, slope_out, slope_out_dem, tc_in, land_in, tc_out,
                   tc_again, tc_again_dem, seg_in, seg_out, method_in, method_out,
                   sheetVars, dispatchVars, probeVars, toolVars>>

ReapplyMinimumTool ==
    /\ Computed(tc_out) /\ ~Computed(tc_again)
    /\ tc_again' = apply_tc_minimum(tc_out.tc, land_in)
    /\ UNCHANGED <<slope_in, slope_out, slope_out_dem, tc_in, land_in, tc_out,
                   tc_out_dem, tc_again_dem, seg_in, seg_out, method_in, method_out,
                   sheetVars, dispatchVars, probeVars, toolVars>>

ReapplyMinimumDEM ==
    /\ Computed(tc_out_dem) /\ ~Computed(tc_again_dem)
    /\ tc_again_dem' = DEM_apply_tc_minimum(tc_out_dem.tc, land_in)
    /\ UNCHANGED <<slope_in, slope_out, slope_out_dem, tc_in, land_in, tc_out,
                   tc_out_dem, tc_again, seg_in, seg_out, method_in, method_out,
                   sheetVars, dispatchVars, probeVars, toolVars>>

TcNext ==
    EnforceMinimumTool \/ EnforceMinimumDEM \/ ReapplyMinimumTool \/ ReapplyMinimumDEM

SpecTc == TcInit /\ [][TcNext]_vars

(***************************************************************************)
(* The calculators on their own: SpecCalc.                                  *)
(***************************************************************************)
\* The rainfall depth P2 of the spin box default, 0.1 in (line 1191).
P2_DEFAULT == 35

SegmentTime(a) ==
    CASE a.kind = "sheet" ->
             sheet_flow_time(a.length_ft, a.slope_pct, a.mannings_n, P2_DEFAULT)
      [] a.kind = "shallow" ->
             shallow_concentrated_time(a.length_ft, a.slope_pct,
                                       IF a.mannings_n < 20 THEN "PAVED" ELSE "UNPAVED")
      [] a.kind = "channel" ->
             channel_flow_time(a.length_ft, a.slope_pct, a.mannings_n, FromRat(1, 1))
      [] a.kind = "pipe" ->
             pipe_flow_time(a.length_ft, a.slope_pct, a.mannings_n, a.diameter_ft)

SegInit ==
    /\ ToolIdle
    /\ SheetIdle
    /\ DispatchIdle
    /\ ProbeIdle
    /\ seg_in \in SegmentInputs /\ seg_out = NoFloat
    /\ slope_in = 0 /\ slope_out = NoSlopeResult /\ slope_out_dem = NoSlopeResult
    /\ tc_in = 0 /\ land_in = "rural"
    /\ tc_out = NoTcResult /\ tc_out_dem = NoTcResult
    /\ tc_again = NoTcResult /\ tc_again_dem = NoTcResult
    /\ method_in = [method |-> "kirpich", length_ft |-> 0, slope_pct |-> 0, cn |-> 0,
                    c_value |-> 30, mannings_n |-> 0]
    /\ method_out = NoFloat

ComputeSegment ==
    /\ seg_out = NoFloat
    /\ seg_out' = SegmentTime(seg_in)
    /\ UNCHANGED <<slope_in, slope_out, slope_out_dem, tc_in, land_in, tc_out,
                   tc_out_dem, tc_again, tc_again_dem, seg_in, method_in, method_out,
                   sheetVars, dispatchVars, probeVars, toolVars>>

MethodInit ==
    /\ ToolIdle
    /\ SheetIdle
    /\ DispatchIdle
    /\ ProbeIdle
    /\ method_in \in MethodInputs /\ method_out = NoFloat
    /\ slope_in = 0 /\ slope_out = NoSlopeResult /\ slope_out_dem = NoSlopeResult
    /\ tc_in = 0 /\ land_in = "rural"
    /\ tc_out = NoTcResult /\ tc_out_dem = NoTcResult
    /\ tc_again = NoTcResult /\ tc_again_dem = NoTcResult
    /\ seg_in = [kind |-> "sheet", length_ft |-> 0, slope_pct |-> 0, mannings_n |-> 0,
                 diameter_ft |-> 0]
    /\ seg_out = NoFloat

ComputeMethod ==
    /\ method_out = NoFloat
    /\ method_out' = MethodCalculate(method_in.method, method_in.length_ft,
                                     method_in.slope_pct, method_in.cn,
                                     method_in.c_value, method_in.mannings_n)
    /\ UNCHANGED <<slope_in, slope_out, slope_out_dem, tc_in, land_in, tc_out,
                   tc_out_dem, tc_again, tc_again_dem, seg_in, seg_out, method_in,
                   sheetVars, dispatchVars, probeVars, toolVars>>

(***************************************************************************)
(* The three SCS Lag implementations on the same arguments: SpecScsLag.    *)
(***************************************************************************)
ScsInit ==
    /\ ToolIdle
    /\ SheetIdle
    /\ DispatchIdle
    /\ scs_in \in ScsInputs /\ scs_out = NoScsResult
    /\ slope_again = NoSlopeResult /\ slope_again_dem = NoSlopeResult
    /\ slope_in = 0 /\ slope_out = NoSlopeResult /\ slope_out_dem = NoSlopeResult
    /\ tc_in = 0 /\ land_in = "rural"
    /\ tc_out = NoTcResult /\ tc_out_dem = NoTcResult
    /\ tc_again = NoTcResult /\ tc_again_dem = NoTcResult
    /\ seg_in = [kind |-> "sheet", length_ft |-> 0, slope_pct |-> 0, mannings_n |-> 0,
                 diameter_ft |-> 0]
    /\ seg_out = NoFloat
    /\ method_in = [method |-> "kirpich", length_ft |-> 0, slope_pct |-> 0, cn |-> 0,
                    c_value |-> 30, mannings_n |-> 0]
    /\ method_out = NoFloat

ComputeScsLag ==
    /\ scs_out = NoScsResult
    /\ scs_out' =
           [tool |-> SCSLag_calculate(scs_in.length_ft, scs_in.slope_pct, scs_in.cn),
            dem |-> SCSLagDEM_calculate(scs_in.length_ft, scs_in.slope_pct, scs_in.cn,
                                        scs_in.apply_adjustments).tc_min,
            val |-> VAL_scs_lag_tc(scs_in.length_ft, scs_in.slope_pct, scs_in.cn)]
    /\ UNCHANGED <<slope_in, slope_out, slope_out_dem, tc_in, land_in, tc_out,
                   tc_out_dem, tc_again, tc_again_dem, seg_in, seg_out, method_in,
                   method_out, sheetVars, dispatchVars, scs_in, slope_again,
                   slope_again_dem, toolVars>>

ScsNext == ComputeScsLag

SpecScsLag == ScsInit /\ [][ScsNext]_vars

(***************************************************************************)
(* The three sheet flow calculators on the same arguments: SpecSheet.      *)
(***************************************************************************)
SheetInit ==
    /\ ToolIdle
    /\ sheet_in \in SheetInputs /\ sheet_out = NoSheetResult
    /\ DispatchIdle
    /\ ProbeIdle
    /\ slope_in = 0 /\ slope_out = NoSlopeResult /\ slope_out_dem = NoSlopeResult
    /\ tc_in = 0 /\ land_in = "rural"
    /\ tc_out = NoTcResult /\ tc_out_dem = NoTcResult
    /\ tc_again = NoTcResult /\ tc_again_dem = NoTcResult
    /\ seg_in = [kind |-> "sheet", length_ft |-> 0, slope_pct |-> 0, mannings_n |-> 0,
                 diameter_ft |-> 0]
    /\ seg_out = NoFloat
    /\ method_in = [method |-> "kirpich", length_ft |-> 0, slope_pct |-> 0, cn |-> 0,
                    c_value |-> 30, mannings_n |-> 0]
    /\ method_out = NoFloat

\* Each calculator called with the length given and with 300 ft.
ComputeSheet ==
    /\ sheet_out = NoSheetResult
    /\ sheet_out' =
           [tool |-> sheet_flow_time(sheet_in.length_ft, sheet_in.slope_pct,
                                     sheet_in.mannings_n, sheet_in.p2_rainfall),
            dem |-> TR55_calculate_sheet_flow_time(sheet_in.length_ft, sheet_in.slope_pct,
                                                   sheet_in.mannings_n,
                                                   sheet_in.p2_rainfall),
            val |-> VAL_sheet_flow_time(sheet_in.length_ft, sheet_in.slope_pct,
                                        sheet_in.mannings_n, sheet_in.p2_rainfall),
            tool_300 |-> sheet_flow_time(300, sheet_in.slope_pct, sheet_in.mannings_n,
                                         sheet_in.p2_rainfall),
            dem_300 |-> TR55_calculate_sheet_flow_time(300, sheet_in.slope_pct,
                                                       sheet_in.mannings_n,
                                                       sheet_in.p2_rainfall),
            val_300 |-> VAL_sheet_flow_time(300, sheet_in.slope_pct,
                                            sheet_in.mannings_n, sheet_in.p2_rainfall)]
    /\ UNCHANGED <<slope_in, slope_out, slope_out_dem, tc_in, land_in, tc_out,
                   tc_out_dem, tc_again, tc_again_dem, seg_in, seg_out, method_in,
                   method_out, sheet_in, dispatchVars, probeVars, toolVars>>

SheetNext == ComputeSheet

SpecSheet == SheetInit /\ [][SheetNext]_vars

\* Both families of calculators, each on its own arguments.
CalcInit == SegInit \/ MethodInit

CalcNext == ComputeSegment \/ ComputeMethod

SpecCalc == CalcInit /\ [][CalcNext]_vars

(***************************************************************************)
(* The parameter and geometry tables.                                      *)
(***************************************************************************)
\* SubbasinParametersTable.get_params; subbasin_params maps ids to records.
get_params(subbasin_params, subbasin_id) ==
    IF subbasin_id \in DOMAIN subbasin_params
    THEN subbasin_params[subbasin_id]
    ELSE [cn |-> 75, c_value |-> 30, mannings_n |-> 400]

\* ChannelGeometryTable.global_defaults after setup_ui: depth, width and side
\* slope in 0.1, pipe diameter in 0.01 ft.
GLOBAL_DEFAULTS ==
    [channel_depth |-> 20, channel_width |-> 40, side_slope |-> 20,
     pipe_diameter |-> 150]

\* ChannelGeometryTable.get_geometry: an entry holds a cell for each key,
\* Null for None or a missing key.
get_geometry(subbasin_geometry, subbasin_id) ==
    LET geom == IF subbasin_id \in DOMAIN subbasin_geometry
                THEN subbasin_geometry[subbasin_id]
                ELSE [channel_depth |-> Null, channel_width |-> Null,
                      side_slope |-> Null, pipe_diameter |-> Null]
    IN  [channel_depth |-> FloatOr(geom.channel_depth, GLOBAL_DEFAULTS.channel_depth),
         channel_width |-> FloatOr(geom.channel_width, GLOBAL_DEFAULTS.channel_width),
         side_slope |-> FloatOr(geom.side_slope, GLOBAL_DEFAULTS.side_slope),
         pipe_diameter |-> FloatOr(geom.pipe_diameter, GLOBAL_DEFAULTS.pipe_diameter)]

\* ChannelGeometryTable.get_hydraulic_radius
get_hydraulic_radius(subbasin_geometry, subbasin_id, flow_type) ==
    LET geom == get_geometry(subbasin_geometry, subbasin_id)
    IN  IF Contains(Upper(flow_type), "PIPE")
        THEN calc_pipe_hydraulic_radius(geom.pipe_diameter)
        ELSE calc_hydraulic_radius(geom.channel_depth, geom.channel_width,
                                   geom.side_slope)

\* The tables as the constructors leave them: no entry.
NoEntries == [id \in {} |-> Null]

\* subbasin_geometry[sb_id] = {}: no key yet.
NoGeometry ==
    [channel_depth |-> Null, channel_width |-> Null, side_slope |-> Null,
     pipe_diameter |-> Null]

\* d[key] = value on a dict kept as a function.
DictSet(d, key, value) ==
    [k \in DOMAIN d \cup {key} |-> IF k = key THEN value ELSE d[k]]


(***************************************************************************)
(* Results: a dict keyed by subbasin id, kept in insertion order.          *)
(***************************************************************************)
\* results[rec.subbasin_id] = rec
DictPut(d, rec) ==
    IF \E i \in 1 .. Len(d) : d[i].subbasin_id = rec.subbasin_id
    THEN [i \in 1 .. Len(d) |->
              IF d[i].subbasin_id = rec.subbasin_id THEN rec ELSE d[i]]
    ELSE Append(d, rec)

RECURSIVE DictPutAll(_, _)
DictPutAll(d, recs) ==
    IF recs = <<>> THEN d ELSE DictPutAll(DictPut(d, Head(recs)), Tail(recs))

\* The keys of a dict filled in the order of ids: first occurrences.
RECURSIVE DictKeys(_)
DictKeys(ids) ==
    IF ids = <<>> THEN <<>>
    ELSE LET front == DictKeys(SubSeq(ids, 1, Len(ids) - 1))
             last == ids[Len(ids)]
         IN  IF \E i \in 1 .. Len(front) : front[i] = last THEN front
             ELSE Append(front, last)

InSeq(x, s) == \E i \in 1 .. Len(s) : s[i] = x

HasKey(d, subbasin_id) == \E i \in 1 .. Len(d) : d[i].subbasin_id = subbasin_id

Lookup(d, subbasin_id) == d[CHOOSE i \in 1 .. Len(d) : d[i].subbasin_id = subbasin_id]

\* The comparison loop over selected_methods for one catchment.
ComparisonMethods(methods, length_ft, slope_pct, cn, c_value, mannings_n) ==
    [k \in 1 .. Len(methods) |->
        [method_id |-> methods[k],
         tc_minutes |-> MethodCalculate(methods[k], length_ft, slope_pct, cn,
                                        c_value, mannings_n)]]

(***************************************************************************)
(* calculate_flowpath_mode                                                 *)
(***************************************************************************)
\* The segment dict built from a feature (lines 1852-1857).
Segment(feature) ==
    [length_ft |-> FloatOr(feature.length, 0),
     slope_pct |-> FloatOr(feature.slope, 0),
     mannings_n |-> FloatOr(feature.mannings_n, 35),
     flow_type |-> Upper(IF Falsy(feature.flow_type) THEN "CHANNEL"
                         ELSE feature.flow_type.text)]

\* One of the float() calls of lines 1853-1855 raises ValueError.
SegmentRaises(feature) ==
    \/ FloatOrRaises(feature.length)
    \/ FloatOrRaises(feature.slope)
    \/ FloatOrRaises(feature.mannings_n)

\* Mutant: the flow type is compared with the tags, not searched for them.
TravelTime_exact(seg, subbasin_id, p2_rainfall, subbasin_geometry) ==
    IF seg.flow_type = "SHEET"
    THEN sheet_flow_time(seg.length_ft, seg.slope_pct, seg.mannings_n, p2_rainfall)
    ELSE IF seg.flow_type = "SHALLOW_CONCENTRATED"
    THEN shallow_concentrated_time(seg.length_ft, seg.slope_pct,
                                   IF seg.mannings_n < 20 THEN "PAVED" ELSE "UNPAVED")
    ELSE IF seg.flow_type = "PIPE"
    THEN pipe_flow_time(seg.length_ft, seg.slope_pct, seg.mannings_n,
                        get_geometry(subbasin_geometry, subbasin_id).pipe_diameter)
    ELSE channel_flow_time(seg.length_ft, seg.slope_pct, seg.mannings_n,
                           get_hydraulic_radius(subbasin_geometry, subbasin_id,
                                                "CHANNEL"))

\* The dispatch on the flow type (lines 1873-1887).
TravelTime(seg, subbasin_id, p2_rainfall, subbasin_geometry) ==
    IF Contains(seg.flow_type, "SHEET")
    THEN sheet_flow_time(seg.length_ft, seg.slope_pct, seg.mannings_n, p2_rainfall)
    ELSE IF Contains(seg.flow_type, "SHALLOW") \/ Contains(seg.flow_type, "CONC")
    THEN shallow_concentrated_time(seg.length_ft, seg.slope_pct,
                                   IF seg.mannings_n < 20 THEN "PAVED" ELSE "UNPAVED")
    ELSE IF Contains(seg.flow_type, "PIPE")
    THEN pipe_flow_time(seg.length_ft, seg.slope_pct, seg.mannings_n,
                        get_geometry(subbasin_geometry, subbasin_id).pipe_diameter)
    ELSE channel_flow_time(seg.length_ft, seg.slope_pct, seg.mannings_n,
                           get_hydraulic_radius(subbasin_geometry, subbasin_id,
                                                "CHANNEL"))

\* Mutant: total_tt = tt for total_tt += tt.
SumTravelTime_assign(details) ==
    IF details = <<>> THEN FZero ELSE details[Len(details)].travel_time_min

\* total_tt after the loop over the segments (lines 1863 and 1889).
RECURSIVE SumTravelTime(_)
SumTravelTime(details) ==
    IF details = <<>> THEN FZero
    ELSE FAdd(SumTravelTime(SubSeq(details, 1, Len(details) - 1)),
              details[Len(details)].travel_time_min)

RECURSIVE SumLength(_)
SumLength(segs) ==
    IF segs = <<>> THEN 0 ELSE Head(segs).length_ft + SumLength(Tail(segs))

\* Mutant: the slope of the last segment stands for every segment.
SumSlopeLength_last(segs) ==
    IF segs = <<>> THEN 0 ELSE segs[Len(segs)].slope_pct * SumLength(segs)

\* sum(s['slope_pct'] * s['length_ft'] for s in segments) (line 1896).
RECURSIVE SumSlopeLength(_)
SumSlopeLength(segs) ==
    IF segs = <<>> THEN 0
    ELSE Head(segs).slope_pct * Head(segs).length_ft + SumSlopeLength(Tail(segs))

\* The result of one subbasin (lines 1862-1910 and 1916-1928).
FlowpathRecord(subbasin_id, features, methods, p2_rainfall, subbasin_params, subbasin_geometry) ==
    LET Mine(f) == f.subbasin_id = subbasin_id
        mine == SelectSeq(features, Mine)
        segments == [i \in 1 .. Len(mine) |-> Segment(mine[i])]
        details == [i \in 1 .. Len(segments) |->
                       [flow_type |-> segments[i].flow_type,
                        length_ft |-> segments[i].length_ft,
                        travel_time_min |-> TravelTime(segments[i], subbasin_id,
                                                       p2_rainfall, subbasin_geometry)]]
        total_length == SumLength(segments)
        avg_slope == IF total_length > 0
                     THEN SumSlopeLength(segments) \div total_length ELSE 0
        sb_params == get_params(subbasin_params, subbasin_id)
    IN  [subbasin_id |-> subbasin_id,
         mode |-> "flowpath",
         tc_segment_min |-> SumTravelTime(details),
         total_length_ft |-> total_length,
         avg_slope_pct |-> avg_slope,
         segments |-> details,
         cn |-> sb_params.cn,
         c_value |-> sb_params.c_value,
         mannings_n_avg |-> sb_params.mannings_n,
         comparison_methods |->
             ComparisonMethods(methods, total_length, avg_slope, sb_params.cn,
                               sb_params.c_value, sb_params.mannings_n),
         elev_known |-> FALSE, adjusted |-> FALSE, warnings |-> <<>>,
         land_type |-> ""]

\* calculate_flowpath_mode: [raised, results]
calculate_flowpath_mode(layer, methods, p2_rainfall, subbasin_params, subbasin_geometry) ==
    LET features == layer.features
        ids == DictKeys([i \in 1 .. Len(features) |-> features[i].subbasin_id])
    IN  IF \E i \in 1 .. Len(features) : SegmentRaises(features[i])
        THEN [raised |-> TRUE, results |-> <<>>]
        ELSE [raised |-> FALSE,
              results |-> [k \in 1 .. Len(ids) |->
                              FlowpathRecord(ids[k], features, methods, p2_rainfall,
                                             subbasin_params, subbasin_geometry)]]

(***************************************************************************)
(* The dispatch on the flow type on its own: SpecDispatch.                 *)
(***************************************************************************)
DispatchInit ==
    /\ ToolIdle
    /\ SheetIdle
    /\ ProbeIdle
    /\ flow_in \in DispatchInputs /\ flow_out = NoFloat
    /\ slope_in = 0 /\ slope_out = NoSlopeResult /\ slope_out_dem = NoSlopeResult
    /\ tc_in = 0 /\ land_in = "rural"
    /\ tc_out = NoTcResult /\ tc_out_dem = NoTcResult
    /\ tc_again = NoTcResult /\ tc_again_dem = NoTcResult
    /\ seg_in = [kind |-> "sheet", length_ft |-> 0, slope_pct |-> 0, mannings_n |-> 0,
                 diameter_ft |-> 0]
    /\ seg_out = NoFloat
    /\ method_in = [method |-> "kirpich", length_ft |-> 0, slope_pct |-> 0, cn |-> 0,
                    c_value |-> 30, mannings_n |-> 0]
    /\ method_out = NoFloat

\* The body of the loop over the segments for one feature (lines 1852-1887),
\* with the geometry table as the constructor leaves it.
ComputeDispatch ==
    /\ flow_out = NoFloat
    /\ flow_out' = TravelTime(Segment(flow_in), flow_in.subbasin_id, P2_DEFAULT,
                              NoEntries)
    /\ UNCHANGED <<slope_in, slope_out, slope_out_dem, tc_in, land_in, tc_out,
                   tc_out_dem, tc_again, tc_again_dem, seg_in, seg_out, method_in,
                   method_out, sheetVars, flow_in, probeVars,
                   toolVars>>

DispatchNext == ComputeDispatch

SpecDispatch == DispatchInit /\ [][DispatchNext]_vars

(***************************************************************************)
(* ManualEntryTable.get_data and calculate_manual_mode                     *)
(***************************************************************************)
\* float(item.text()) raises ValueError in a row (line 441: the row is
\* skipped), or the row has no id (line 439).
RowSkipped(row) ==
    \/ row.length_ft.kind # "num" \/ row.slope_pct.kind # "num"
    \/ row.cn.kind # "num" \/ row.c_value.kind # "num"
    \/ row.mannings_n.kind # "num"
    \/ row.subbasin_id = ""

\* ManualEntryTable.get_data
get_data(table) ==
    LET Kept(row) == ~RowSkipped(row)
        kept == SelectSeq(table, Kept)
    IN  [i \in 1 .. Len(kept) |->
            [subbasin_id |-> kept[i].subbasin_id,
             length_ft |-> kept[i].length_ft.val,
             slope_pct |-> kept[i].slope_pct.val,
             cn |-> kept[i].cn.val,
             c_value |-> kept[i].c_value.val,
             mannings_n |-> kept[i].mannings_n.val]]

\* ManualEntryTable.has_valid_data
has_valid_data(table) == Len(get_data(table)) > 0

\* A record whose segment TC is the number 0 (not the tool's).
ManualRecord_zero(entry, methods) ==
    [subbasin_id |-> entry.subbasin_id,
     mode |-> "manual",
     tc_segment_min |-> FZero,
     total_length_ft |-> entry.length_ft,
     avg_slope_pct |-> entry.slope_pct,
     segments |-> <<>>,
     cn |-> entry.cn,
     c_value |-> entry.c_value,
     mannings_n_avg |-> entry.mannings_n,
     comparison_methods |->
         ComparisonMethods(methods, entry.length_ft, entry.slope_pct, entry.cn,
                           entry.c_value, entry.mannings_n),
     elev_known |-> FALSE, adjusted |-> FALSE, warnings |-> <<>>,
     land_type |-> ""]

\* The result of one entry (lines 1943-1970).
ManualRecord(entry, methods) ==
    [subbasin_id |-> entry.subbasin_id,
     mode |-> "manual",
     tc_segment_min |-> FNone,
     total_length_ft |-> entry.length_ft,
     avg_slope_pct |-> entry.slope_pct,
     segments |-> <<>>,
     cn |-> entry.cn,
     c_value |-> entry.c_value,
     mannings_n_avg |-> entry.mannings_n,
     comparison_methods |->
         ComparisonMethods(methods, entry.length_ft, entry.slope_pct, entry.cn,
                           entry.c_value, entry.mannings_n),
     elev_known |-> FALSE, adjusted |-> FALSE, warnings |-> <<>>,
     land_type |-> ""]

\* calculate_manual_mode: [raised, results]
calculate_manual_mode(table, methods) ==
    LET manual_data == get_data(table)
    IN  [raised |-> FALSE,
         results |-> DictPutAll(<<>>, [i \in 1 .. Len(manual_data) |->
                                          ManualRecord(manual_data[i], methods)])]

(***************************************************************************)
(* DEM extraction: DEMFlowpathExtractor.extract_flowpath_simple and        *)
(* calculate_dem_mode.  Lengths in ft, elevations in 0.001 ft.             *)
(***************************************************************************)
\* x * 3.28084 on integers, without overflow for x < 2^31 / 4
MetersToFeet(x) == (x \div 25000) * 82021 + ((x % 25000) * 82021) \div 25000

\* The conversion of lines 226-232 of dem_extraction.py and 2063-2065.
ToFeet(x, units) == IF units = 0 THEN MetersToFeet(x) ELSE x

RECURSIVE ISqrtIn(_, _, _)
ISqrtIn(x, lo, hi) ==
    IF lo = hi THEN lo
    ELSE LET mid == (lo + hi + 1) \div 2
         IN  IF mid * mid <= x THEN ISqrtIn(x, mid, hi) ELSE ISqrtIn(x, lo, mid - 1)

\* math.sqrt, to whole units
ISqrt(x) == ISqrtIn(x, 0, 46340)

\* A warning: the message and the number formatted into it.
Warning(text, value) == [text |-> text, value |-> value]

\* The spin boxes of the DEM panel at their initial values: CN, C (0.01),
\* Manning's n (0.001).
DEM_DEFAULT_CN == 75

DEM_DEFAULT_C == 30

DEM_DEFAULT_N == 400

\* Mutant: the warning of the slope adjustment is not kept.
extract_flowpath_simple_quiet(feature, units) ==
    LET result == [raised |-> FALSE, length_ft |-> 0, slope_pct |-> 0,
                   elev_known |-> FALSE, adjusted |-> FALSE, warnings |-> <<>>]
    IN  IF feature.geometry = "invalid" THEN [result EXCEPT !.raised = TRUE]
        ELSE IF feature.geometry = "empty"
        THEN [result EXCEPT !.warnings = <<Warning("Empty geometry", 0)>>]
        ELSE IF ~feature.elev_valid
        THEN [result EXCEPT !.warnings =
                  <<Warning("Could not extract elevations from DEM", 0)>>]
        ELSE LET length == ToFeet(feature.distance, units)
                 highest_elev == ToFeet(feature.high_elev, units)
                 low_elev == ToFeet(feature.low_elev, units)
                 elev_diff == highest_elev - low_elev
                 slope_ftft == IF length > 0 THEN (elev_diff * 100) \div length ELSE 0
                 adj == DEM_apply_slope_adjustment(slope_ftft)
             IN  [raised |-> FALSE,
                  length_ft |-> length,
                  slope_pct |-> FtFtToPct(adj.slope),
                  elev_known |-> TRUE,
                  adjusted |-> adj.adjusted,
                  warnings |->
                      (IF length > 0 THEN <<>>
                       ELSE <<Warning("Zero length calculated", 0)>>)]

\* DEMFlowpathExtractor.extract_flowpath_simple; raised: QGIS raised inside.
extract_flowpath_simple(feature, units) ==
    LET result == [raised |-> FALSE, length_ft |-> 0, slope_pct |-> 0,
                   elev_known |-> FALSE, adjusted |-> FALSE, warnings |-> <<>>]
    IN  IF feature.geometry = "invalid" THEN [result EXCEPT !.raised = TRUE]
        ELSE IF feature.geometry = "empty"
        THEN [result EXCEPT !.warnings = <<Warning("Empty geometry", 0)>>]
        ELSE IF ~feature.elev_valid
        THEN [result EXCEPT !.warnings =
                  <<Warning("Could not extract elevations from DEM", 0)>>]
        ELSE LET length == ToFeet(feature.distance, units)
                 highest_elev == ToFeet(feature.high_elev, units)
                 low_elev == ToFeet(feature.low_elev, units)
                 elev_diff == highest_elev - low_elev
                 slope_ftft == IF length > 0 THEN (elev_diff * 100) \div length ELSE 0
                 adj == DEM_apply_slope_adjustment(slope_ftft)
             IN  [raised |-> FALSE,
                  length_ft |-> length,
                  slope_pct |-> FtFtToPct(adj.slope),
                  elev_known |-> TRUE,
                  adjusted |-> adj.adjusted,
                  warnings |->
                      (IF length > 0 THEN <<>>
                       ELSE <<Warning("Zero length calculated", 0)>>)
                      \o (IF adj.warning # "None"
                          THEN <<Warning(adj.warning, slope_ftft)>> ELSE <<>>)]

\* The except branch of calculate_dem_mode (lines 2053-2076).
GeometricFallback(feature, units) ==
    [raised |-> FALSE,
     length_ft |-> IF feature.geometry # "empty"
                   THEN ToFeet(ISqrt(feature.bbox_width * feature.bbox_width
                                     + feature.bbox_height * feature.bbox_height), units)
                   ELSE 2100,
     slope_pct |-> 20,
     elev_known |-> FALSE,
     adjusted |-> TRUE,
     warnings |-> <<Warning("DEM extraction failed. Using geometric fallback.", 0),
                    Warning("Using conservative defaults for length and slope", 0)>>]

\* One pass of the comparison loop of calculate_dem_mode for a method whose
\* calculate() returned tc (lines 2120-2130); acc: [comparison_methods,
\* warnings, raised].  tc > 0 raises TypeError for a complex number.
EnforceMinimum(acc, method_id, tc, land_type, tc_minimum) ==
    LET min == DEM_apply_tc_minimum(tc, land_type)
        enforce == tc_minimum /\ tc.kind = "f" /\ tc.sgn > 0 /\ min.adjusted
        tc_warning == Warning(min.warning, FToFixed(tc, 10))
    IN  [comparison_methods |->
             Append(acc.comparison_methods,
                    [method_id |-> method_id,
                     tc_minutes |-> IF enforce THEN min.tc ELSE tc]),
         warnings |-> IF enforce /\ ~InSeq(tc_warning, acc.warnings)
                      THEN Append(acc.warnings, tc_warning)
                      ELSE acc.warnings,
         raised |-> tc_minimum /\ tc.kind # "f"]

\* The comparison loop of calculate_dem_mode (lines 2108-2130) from method k
\* on.
RECURSIVE DEMMethodLoop(_, _, _, _, _, _, _, _)
DEMMethodLoop(methods, k, length_ft, slope_pct, cn, land_type, tc_minimum, acc) ==
    IF k > Len(methods) \/ acc.raised THEN acc
    ELSE DEMMethodLoop(methods, k + 1, length_ft, slope_pct, cn, land_type,
                       tc_minimum,
                       EnforceMinimum(acc, methods[k],
                                      MethodCalculate(methods[k], length_ft, slope_pct,
                                                      cn, DEM_DEFAULT_C, DEM_DEFAULT_N),
                                      land_type, tc_minimum))

\* The record of a subbasin (lines 2089-2105 and 2133) once the comparison
\* loop has run.
DEMRecordOf(subbasin_id, got, slope_pct, adjusted, cn, land_type, loop) ==
    [raised |-> loop.raised,
     rec |-> [subbasin_id |-> subbasin_id,
              mode |-> "dem",
              tc_segment_min |-> FNone,
              total_length_ft |-> got.length_ft,
              avg_slope_pct |-> slope_pct,
              segments |-> <<>>,
              cn |-> cn,
              c_value |-> DEM_DEFAULT_C,
              mannings_n_avg |-> DEM_DEFAULT_N,
              comparison_methods |-> loop.comparison_methods,
              elev_known |-> got.elev_known,
              adjusted |-> adjusted,
              warnings |-> loop.warnings,
              land_type |-> land_type]]

\* The body of the loop over the features (lines 2024-2133): [raised, rec]
DEMRecord(feature, units, cn_field, land_type_field, methods, slope_adjustments, tc_minimum) ==
    LET cn == IF cn_field /\ feature.cn.kind = "num" THEN feature.cn.val
              ELSE DEM_DEFAULT_CN
        land_type == IF land_type_field /\ feature.land_type.kind # "null"
                     THEN feature.land_type.text ELSE "rural"
        extraction_result == extract_flowpath_simple(feature, units)
        got == IF extraction_result.raised THEN GeometricFallback(feature, units)
               ELSE extraction_result
        slope_ftft == PctToFtFt(got.slope_pct)
        adj == DEM_apply_slope_adjustment(slope_ftft)
        readjust == slope_adjustments /\ adj.adjusted
        slope_pct == IF readjust THEN FtFtToPct(adj.slope) ELSE got.slope_pct
        extraction_warnings ==
            IF readjust THEN Append(got.warnings, Warning(adj.warning, slope_ftft))
            ELSE got.warnings
    IN  DEMRecordOf(feature.subbasin_id, got, slope_pct, got.adjusted \/ readjust, cn,
                    land_type,
                    DEMMethodLoop(methods, 1, got.length_ft, slope_pct, cn, land_type,
                                  tc_minimum,
                                  [comparison_methods |-> <<>>,
                                   warnings |-> extraction_warnings,
                                   raised |-> FALSE]))

\* The results dict of the records of the features, unless one raised.
DEMResults(recs) ==
    IF \E i \in 1 .. Len(recs) : recs[i].raised
    THEN [raised |-> TRUE, results |-> <<>>]
    ELSE [raised |-> FALSE,
          results |-> DictPutAll(<<>>, [i \in 1 .. Len(recs) |-> recs[i].rec])]

\* calculate_dem_mode: [raised, results]
calculate_dem_mode(dem_loaded, layer, land_type_field, methods, slope_adjustments, tc_minimum) ==
    IF ~HAS_DEM_EXTRACTION \/ ~dem_loaded \/ ~layer.selected
       \/ Len(layer.features) = 0
    THEN [raised |-> TRUE, results |-> <<>>]
    ELSE DEMResults([i \in 1 .. Len(layer.features) |->
                        DEMRecord(layer.features[i], layer.units, layer.std_fields,
                                  land_type_field, methods, slope_adjustments,
                                  tc_minimum)])

(***************************************************************************)
(* create_outputs and update_results_display                               *)
(***************************************************************************)
\* A CSV or table cell: '' / "N/A", or a number in the unit of its rounding.
Blank == [blank |-> TRUE, val |-> 0]

Value(v) == [blank |-> FALSE, val |-> v]

\* tc_seg is true in Python: neither None nor 0.0
Truthy(x) == x.kind = "f" /\ x.sgn # 0

\* round(tc_minutes, 2) raises TypeError for a complex number.
RowRaises(data) ==
    \E k \in 1 .. Len(data.comparison_methods) :
        data.comparison_methods[k].tc_minutes.kind # "f"

\* The row create_outputs writes to tc_calculations.csv for a record.
CsvRow(data, is_flowpath_mode) ==
    [subbasin_id |-> data.subbasin_id,
     mode |-> data.mode,
     tc_segment |-> IF is_flowpath_mode /\ Truthy(data.tc_segment_min)
                    THEN Value(FToFixed(data.tc_segment_min, 100)) ELSE Blank,
     adjusted |-> data.adjusted,
     warnings |-> data.warnings,
     tcs |-> [k \in 1 .. Len(data.comparison_methods) |->
                 Value(FToFixed(data.comparison_methods[k].tc_minutes, 100))]]

\* f'TC_{self.methods[method_id].name}_min' (line 2238)
MethodColumn(method_id) ==
    CASE method_id = "kirpich" -> "TC_Kirpich_min"
      [] method_id = "scs_lag" -> "TC_SCS Lag_min"
      [] method_id = "faa" -> "TC_FAA_min"
      [] method_id = "kerby" -> "TC_Kerby_min"

\* The header row (lines 2231-2239): the method columns follow
\* self.selected_methods.
CsvHeader ==
    [subbasin_id |-> "Subbasin_ID", mode |-> "Mode", tc_segment |-> Blank,
     adjusted |-> FALSE, warnings |-> <<>>,
     tcs |-> [k \in 1 .. Len(selected_methods) |-> MethodColumn(selected_methods[k])]]

\* create_outputs: [raised, files]; a file is written up to the row that
\* raised.
create_outputs(res, previous) ==
    LET is_flowpath_mode == \E i \in 1 .. Len(res) : res[i].mode = "flowpath"
        is_dem_mode == \E i \in 1 .. Len(res) : res[i].mode = "dem"
        bad == {i \in 1 .. Len(res) : RowRaises(res[i])}
        written == IF bad = {} THEN Len(res)
                   ELSE (CHOOSE i \in bad : \A j \in bad : i <= j) - 1
    IN  [raised |-> bad # {},
         files |->
             [tc_calculations |->
                  <<CsvHeader>> \o [i \in 1 .. written |->
                                       CsvRow(res[i], is_flowpath_mode)],
              tc_segment_details |->
                  previous.tc_segment_details \/ (bad = {} /\ is_flowpath_mode),
              tc_dem_extraction_summary |->
                  previous.tc_dem_extraction_summary \/ (bad = {} /\ is_dem_mode)]]

\* update_results_display: [raised, table]; min() of no value raises
\* ValueError after the table is filled.
update_results_display(res) ==
    LET is_flowpath_mode == \E i \in 1 .. Len(res) : res[i].mode = "flowpath"
    IN  [raised |-> \A i \in 1 .. Len(res) : res[i].comparison_methods = <<>>,
         table |->
             [i \in 1 .. Len(res) |->
                 [subbasin_id |-> res[i].subbasin_id,
                  tc_segment |-> IF is_flowpath_mode /\ Truthy(res[i].tc_segment_min)
                                 THEN Value(FToFixed(res[i].tc_segment_min, 10))
                                 ELSE Blank,
                  tcs |-> [k \in 1 .. Len(res[i].comparison_methods) |->
                              Value(FToFixed(res[i].comparison_methods[k].tc_minutes,
                                             10))]]]]

(***************************************************************************)
(* The handlers of the tool.  Inputs are set up before the first run.      *)
(***************************************************************************)
configVars ==
    <<current_mode, use_flowpath_mode, mode_stack, selected_methods, output_dir,
      flowpath_layer, fields_mapped, manual_table, dem_selected,
      dem_subbasin_layer, dem_land_type_field, apply_slope_adj, apply_tc_min>>

runVars ==
    <<run_count, run_status, run_error, run_mode, results, output_files,
      results_table>>

\* Mutant: the DEM radio button stays enabled without the extraction module.
on_mode_changed_enabled(mode) ==
    /\ mode # current_mode
    /\ current_mode' = mode
    /\ use_flowpath_mode' = (mode = "flowpath")
    /\ mode_stack' = (CASE mode = "flowpath" -> 0 [] mode = "manual" -> 1
                        [] mode = "dem" -> 2)
    /\ UNCHANGED <<selected_methods, output_dir, flowpath_layer, fields_mapped,
                   manual_table, dem_selected, dem_subbasin_layer,
                   dem_land_type_field, apply_slope_adj, apply_tc_min>>
    /\ UNCHANGED <<runVars, csvVars, geomVars, boxVars, moduleVars, pureVars>>

\* on_mode_changed after the radio button of mode was checked, before or
\* after a run; the DEM button is disabled without the extraction module
\* (lines 1059-1063).
on_mode_changed(mode) ==
    /\ mode # current_mode
    /\ mode = "dem" => HAS_DEM_EXTRACTION
    /\ current_mode' = mode
    /\ use_flowpath_mode' = (mode = "flowpath")
    /\ mode_stack' = (CASE mode = "flowpath" -> 0 [] mode = "manual" -> 1
                        [] mode = "dem" -> 2)
    /\ UNCHANGED <<selected_methods, output_dir, flowpath_layer, fields_mapped,
                   manual_table, dem_selected, dem_subbasin_layer,
                   dem_land_type_field, apply_slope_adj, apply_tc_min>>
    /\ UNCHANGED <<runVars, csvVars, geomVars, boxVars, moduleVars, pureVars>>

\* list.remove: the first occurrence of x leaves the list.
RemoveFirst(s, x) ==
    LET at == CHOOSE i \in 1 .. Len(s) : s[i] = x /\ \A j \in 1 .. i - 1 : s[j] # x
    IN  SubSeq(s, 1, at - 1) \o SubSeq(s, at + 1, Len(s))

\* Mutant: a method that is unchecked stays in the list.
on_method_toggled_keep(method_id, checked) ==
    /\ run_count = 0
    /\ checked = ~method_checkboxes[method_id]
    /\ method_checkboxes' = [method_checkboxes EXCEPT ![method_id] = checked]
    /\ selected_methods' =
           IF checked /\ ~InSeq(method_id, selected_methods)
           THEN Append(selected_methods, method_id)
           ELSE selected_methods
    /\ UNCHANGED <<current_mode, use_flowpath_mode, mode_stack, output_dir,
                   flowpath_layer, fields_mapped, manual_table, dem_selected,
                   dem_subbasin_layer, dem_land_type_field, apply_slope_adj,
                   apply_tc_min>>
    /\ UNCHANGED <<runVars, csvVars, geomVars, moduleVars, pureVars>>

\* on_method_toggled(method_id, checked), the slot of the toggled signal of
\* the method's check box: checked is the new state of the box.
on_method_toggled(method_id, checked) ==
    /\ run_count = 0
    /\ checked = ~method_checkboxes[method_id]
    /\ method_checkboxes' = [method_checkboxes EXCEPT ![method_id] = checked]
    /\ selected_methods' =
           IF checked /\ ~InSeq(method_id, selected_methods)
           THEN Append(selected_methods, method_id)
           ELSE IF ~checked /\ InSeq(method_id, selected_methods)
           THEN RemoveFirst(selected_methods, method_id)
           ELSE selected_methods
    /\ UNCHANGED <<current_mode, use_flowpath_mode, mode_stack, output_dir,
                   flowpath_layer, fields_mapped, manual_table, dem_selected,
                   dem_subbasin_layer, dem_land_type_field, apply_slope_adj,
                   apply_tc_min>>
    /\ UNCHANGED <<runVars, csvVars, geomVars, moduleVars, pureVars>>

\* DirectorySelector.set_directory with an existing directory
set_directory ==
    /\ run_count = 0
    /\ ~output_dir
    /\ output_dir' = TRUE
    /\ UNCHANGED <<current_mode, use_flowpath_mode, mode_stack, selected_methods,
                   flowpath_layer, fields_mapped, manual_table, dem_selected,
                   dem_subbasin_layer, dem_land_type_field, apply_slope_adj,
                   apply_tc_min>>
    /\ UNCHANGED <<runVars, csvVars, geomVars, boxVars, moduleVars, pureVars>>

\* LayerFieldSelector.set_layer and the tool's on_layer_changed: the field
\* combos are cleared, then filled and preselected by field name.
set_layer(layer) ==
    /\ run_count = 0
    /\ current_mode = "flowpath"
    /\ layer # flowpath_layer
    /\ flowpath_layer' = layer
    /\ fields_mapped' = (layer.selected /\ layer.std_fields)
    /\ UNCHANGED <<current_mode, use_flowpath_mode, mode_stack, selected_methods,
                   output_dir, manual_table, dem_selected, dem_subbasin_layer,
                   dem_land_type_field, apply_slope_adj, apply_tc_min>>
    /\ UNCHANGED <<runVars, csvVars, geomVars, boxVars, moduleVars, pureVars>>

\* The user picks a field in each of the five field combos.
select_fields ==
    /\ run_count = 0
    /\ current_mode = "flowpath"
    /\ flowpath_layer.selected /\ ~fields_mapped
    /\ fields_mapped' = TRUE
    /\ UNCHANGED <<current_mode, use_flowpath_mode, mode_stack, selected_methods,
                   output_dir, flowpath_layer, manual_table, dem_selected,
                   dem_subbasin_layer, dem_land_type_field, apply_slope_adj,
                   apply_tc_min>>
    /\ UNCHANGED <<runVars, csvVars, geomVars, boxVars, moduleVars, pureVars>>

ManualUnchanged ==
    /\ UNCHANGED <<current_mode, use_flowpath_mode, mode_stack, selected_methods,
                   output_dir, flowpath_layer, fields_mapped, dem_selected,
                   dem_subbasin_layer, dem_land_type_field, apply_slope_adj,
                   apply_tc_min>>
    /\ UNCHANGED <<runVars, csvVars, geomVars, boxVars, moduleVars, pureVars>>

\* ManualEntryTable.add_row
add_row ==
    /\ run_count = 0
    /\ current_mode = "manual"
    /\ Len(manual_table) < MaxManualRows
    /\ manual_table' = Append(manual_table, DefaultRow(Len(manual_table) + 1))
    /\ ManualUnchanged

\* ManualEntryTable.remove_selected with the rows of `rows` selected
remove_selected(rows) ==
    /\ run_count = 0
    /\ current_mode = "manual"
    /\ rows # {}
    /\ manual_table' =
           LET kept == {i \in 1 .. Len(manual_table) : i \notin rows}
               Nth(k) == CHOOSE i \in kept : Cardinality({j \in kept : j < i}) = k - 1
           IN  [k \in 1 .. Cardinality(kept) |-> manual_table[Nth(k)]]
    /\ ManualUnchanged

\* ManualEntryTable.clear_table
clear_table ==
    /\ run_count = 0
    /\ current_mode = "manual"
    /\ manual_table # <<DefaultRow(1)>>
    /\ manual_table' = <<DefaultRow(1)>>
    /\ ManualUnchanged

\* The user edits a cell of the manual table.
edit_cell(row, column, cell) ==
    /\ run_count = 0
    /\ current_mode = "manual"
    /\ manual_table[row][column] # cell
    /\ manual_table' = [manual_table EXCEPT ![row][column] = cell]
    /\ ManualUnchanged

\* The header row save_to_csv writes (line 499).
ManualCsvHeader_titled ==
    <<"Subbasin_ID", "Length_FT", "Slope_Pct", "CN", "C_Value", "Mannings_n">>

ManualCsvHeader ==
    <<"subbasin_id", "length_ft", "slope_pct", "cn", "c_value", "mannings_n">>

\* The text csv.writer writes for a float, str(value): float() of it is
\* the value again; it is not the text the user typed ('2100.0' for '2100').
FloatCell(v) == [kind |-> "num", val |-> v, text |-> "repr"]

\* ManualEntryTable.save_to_csv to the file the dialog proposes; nothing is
\* written when get_data() is empty.
save_to_csv ==
    /\ run_count = 0
    /\ current_mode = "manual"
    /\ \E data \in {get_data(manual_table)} :
           /\ Len(data) > 0
           /\ manual_csv' =
                  <<ManualCsvHeader>>
                  \o [i \in 1 .. Len(data) |->
                         <<Text(data[i].subbasin_id), FloatCell(data[i].length_ft),
                           FloatCell(data[i].slope_pct), FloatCell(data[i].cn),
                           FloatCell(data[i].c_value), FloatCell(data[i].mannings_n)>>]
           /\ csv_saved' = data
    /\ UNCHANGED <<configVars, runVars, geomVars, boxVars, moduleVars, pureVars>>

\* row_data.get(names[1], row_data.get(names[2], ... default)) on the dict
\* csv.DictReader builds of a row from the header.
RowDataGet(header, row, names, default_value) ==
    LET Column(k) == {c \in 1 .. Len(header) : c <= Len(row) /\ header[c] = names[k]}
        found == {k \in 1 .. Len(names) : Column(k) # {}}
    IN  IF found = {} THEN default_value
        ELSE LET k == CHOOSE x \in found : \A y \in found : x <= y
             IN  row[CHOOSE c \in Column(k) : \A d \in Column(k) : d <= c]

\* The table row load_from_csv fills from row number row (0-based) of the
\* file (lines 463-474).
LoadedRow(header, row_data, row) ==
    [subbasin_id |-> RowDataGet(header, row_data, <<"subbasin_id", "Subbasin_ID">>,
                                Text(SBName(row + 1))).text,
     length_ft |-> RowDataGet(header, row_data, <<"length_ft", "Length_ft", "Length">>,
                              Num(2100)),
     slope_pct |-> RowDataGet(header, row_data, <<"slope_pct", "Slope_Pct", "Slope">>,
                              Num(200)),
     cn |-> RowDataGet(header, row_data, <<"cn", "CN">>, Num(75)),
     c_value |-> RowDataGet(header, row_data, <<"c_value", "C_Value", "C">>, Num(30)),
     mannings_n |-> RowDataGet(header, row_data, <<"mannings_n", "Mannings_n", "n">>,
                               Num(400))]

\* ManualEntryTable.load_from_csv of the file save_to_csv wrote: the table
\* is emptied, then one row is inserted for each row after the header.
load_from_csv ==
    /\ run_count = 0
    /\ current_mode = "manual"
    /\ manual_csv # <<>>
    /\ manual_table' = [i \in 1 .. Len(manual_csv) - 1 |->
                           LoadedRow(manual_csv[1], manual_csv[i + 1], i - 1)]
    /\ UNCHANGED <<current_mode, use_flowpath_mode, mode_stack, selected_methods,
                   output_dir, flowpath_layer, fields_mapped, dem_selected,
                   dem_subbasin_layer, dem_land_type_field, apply_slope_adj,
                   apply_tc_min>>
    /\ UNCHANGED <<runVars, csvVars, geomVars, boxVars, moduleVars, pureVars>>

\* ChannelGeometryTable.on_cell_changed for the row of sb_id and one of the
\* columns 1-4: the entry is created, then float(text) raises ValueError,
\* or the value (None for an empty cell) is stored and the R column of the
\* row is computed again of get_geometry(sb_id).
on_cell_changed(sb_id, column, cell) ==
    /\ \E entry \in {IF sb_id \in DOMAIN geometry_table
                      THEN geometry_table[sb_id] ELSE NoGeometry} :
       \E value \in {IF cell.kind = "num" THEN cell ELSE Null} :
           IF cell.kind = "text" /\ cell.text # ""
           THEN /\ geometry_table' = DictSet(geometry_table, sb_id, entry)
                /\ UNCHANGED geometry_shown
           ELSE /\ geometry_table' =
                       DictSet(geometry_table, sb_id,
                               [entry EXCEPT ![column] = value])
                /\ geometry_shown' =
                       DictSet(geometry_shown, sb_id,
                               get_geometry(geometry_table', sb_id))
    /\ UNCHANGED <<configVars, runVars, csvVars, boxVars, moduleVars, pureVars>>

GeometryNext ==
    \E sb_id \in GeometryIds, column \in GeometryColumns, cell \in GeometryTexts :
        on_cell_changed(sb_id, column, cell)

DEMUnchanged ==
    /\ UNCHANGED <<current_mode, use_flowpath_mode, mode_stack, selected_methods,
                   output_dir, flowpath_layer, fields_mapped, manual_table>>
    /\ UNCHANGED <<runVars, csvVars, geomVars, boxVars, moduleVars, pureVars>>

\* on_dem_changed after the DEM combo changed to a raster layer or to none
on_dem_changed(selected) ==
    /\ run_count = 0
    /\ current_mode = "dem"
    /\ selected # dem_selected
    /\ dem_selected' = selected
    /\ UNCHANGED <<dem_subbasin_layer, dem_land_type_field, apply_slope_adj,
                   apply_tc_min>>
    /\ DEMUnchanged

\* on_dem_subbasin_changed after the subbasin combo changed: the field
\* combos are cleared, the id and CN fields preselected by name.
on_dem_subbasin_changed(layer) ==
    /\ run_count = 0
    /\ current_mode = "dem"
    /\ layer # dem_subbasin_layer
    /\ dem_subbasin_layer' = layer
    /\ dem_land_type_field' = FALSE
    /\ UNCHANGED <<dem_selected, apply_slope_adj, apply_tc_min>>
    /\ DEMUnchanged

\* The user picks a field, or "-- Use Default --", in the land type combo.
select_land_type_field ==
    /\ run_count = 0
    /\ current_mode = "dem"
    /\ dem_subbasin_layer.selected
    /\ dem_land_type_field' = ~dem_land_type_field
    /\ UNCHANGED <<dem_selected, dem_subbasin_layer, apply_slope_adj, apply_tc_min>>
    /\ DEMUnchanged

\* The user toggles apply_slope_adj_checkbox.
toggle_slope_adjustment ==
    /\ run_count = 0
    /\ current_mode = "dem"
    /\ apply_slope_adj' = ~apply_slope_adj
    /\ UNCHANGED <<dem_selected, dem_subbasin_layer, dem_land_type_field,
                   apply_tc_min>>
    /\ DEMUnchanged

\* The user toggles apply_tc_min_checkbox.
toggle_tc_minimum ==
    /\ run_count = 0
    /\ current_mode = "dem"
    /\ apply_tc_min' = ~apply_tc_min
    /\ UNCHANGED <<dem_selected, dem_subbasin_layer, dem_land_type_field,
                   apply_slope_adj>>
    /\ DEMUnchanged

\* validate_inputs: no error was collected
validate_inputs ==
    /\ current_mode = "flowpath" => (flowpath_layer.selected /\ fields_mapped)
    /\ current_mode = "manual" => has_valid_data(manual_table)
    /\ current_mode = "dem" =>
           (HAS_DEM_EXTRACTION /\ dem_selected /\ dem_subbasin_layer.selected)
    /\ output_dir

\* A dispatch that ignores current_mode (not the tool's).
Calculate_flowpath_only ==
    calculate_flowpath_mode(flowpath_layer, selected_methods, P2_DEFAULT, NoEntries,
                            NoEntries)

\* The dispatch of run() on current_mode (lines 1797-1810).
Calculate ==
    CASE current_mode = "flowpath" ->
             calculate_flowpath_mode(flowpath_layer, selected_methods, P2_DEFAULT,
                                     NoEntries, NoEntries)
      [] current_mode = "manual" ->
             calculate_manual_mode(manual_table, selected_methods)
      [] current_mode = "dem" ->
             calculate_dem_mode(dem_selected, dem_subbasin_layer,
                                dem_land_type_field, selected_methods,
                                apply_slope_adj, apply_tc_min)
      [] OTHER -> [raised |-> TRUE, results |-> <<>>]

\* run(): validate_inputs, the calculation of the mode, create_outputs,
\* update_results_display, show_completion_dialog; an exception of any step
\* ends the run.
run ==
    /\ run_count < MaxRuns
    /\ \E valid \in {validate_inputs} :
       \E calc \in {IF valid THEN Calculate ELSE [raised |-> TRUE, results |-> <<>>]} :
       \E out \in {create_outputs(calc.results, output_files)} :
       \E disp \in {update_results_display(calc.results)} :
           /\ results' = calc.results
           /\ output_files' = IF calc.raised THEN output_files ELSE out.files
           /\ results_table' = IF calc.raised \/ out.raised THEN results_table
                               ELSE disp.table
           /\ run_error' = IF ~valid THEN "validate_inputs"
                           ELSE IF calc.raised THEN "calculate"
                           ELSE IF out.raised THEN "create_outputs"
                           ELSE IF disp.raised THEN "update_results_display"
                           ELSE ""
    /\ run_status' = IF run_error' = "" THEN "ok" ELSE "failed"
    /\ run_mode' = current_mode
    /\ run_count' = run_count + 1
    /\ UNCHANGED <<configVars, csvVars, geomVars, boxVars, moduleVars, pureVars>>

(***************************************************************************)
(* The tool: every handler (Spec), and a session in one mode's panel       *)
(* (SpecFlowpath, SpecManual, SpecDEM).                                    *)
(***************************************************************************)
Init == PureIdle /\ ToolIdle

Modes == {"flowpath", "manual", "dem"}

AnyTab ==
    \/ set_directory
    \/ run

FlowpathPanel ==
    \/ \E layer \in FlowpathLayers \cup {NoLayer} : set_layer(layer)
    \/ select_fields

ManualPanel ==
    \/ add_row
    \/ \E rows \in SUBSET (1 .. Len(manual_table)) : remove_selected(rows)
    \/ clear_table
    \/ \E row \in 1 .. Len(manual_table), e \in ManualEdits : edit_cell(row, e[1], e[2])

DEMPanel ==
    \/ \E selected \in BOOLEAN : on_dem_changed(selected)
    \/ \E layer \in SubbasinLayers \cup {NoLayer} : on_dem_subbasin_changed(layer)
    \/ select_land_type_field
    \/ toggle_slope_adjustment
    \/ toggle_tc_minimum

MethodsTab == \E method_id \in MethodIds, checked \in BOOLEAN :
                  on_method_toggled(method_id, checked)

Next ==
    \/ \E mode \in Modes : on_mode_changed(mode)
    \/ FlowpathPanel
    \/ ManualPanel
    \/ DEMPanel
    \/ MethodsTab
    \/ AnyTab

Spec == Init /\ [][Next]_vars

FlowpathNext == FlowpathPanel \/ MethodsTab \/ AnyTab

SpecFlowpath == Init /\ [][FlowpathNext]_vars

ManualNext ==
    \/ \E mode \in {"flowpath", "manual"} : on_mode_changed(mode)
    \/ ManualPanel
    \/ AnyTab

SpecManual == Init /\ [][ManualNext]_vars

DEMNext ==
    \/ \E mode \in {"flowpath", "dem"} : on_mode_changed(mode)
    \/ DEMPanel
    \/ AnyTab

SpecDEM == Init /\ [][DEMNext]_vars

SpecGeometry == Init /\ [][GeometryNext]_vars

\* The manual table edited, saved to a CSV file and loaded from it.
ManualCsvNext ==
    \/ on_mode_changed("manual")
    \/ add_row
    \/ \E rows \in SUBSET (1 .. Len(manual_table)) : remove_selected(rows)
    \/ \E row \in 1 .. Len(manual_table), e \in CsvEdits : edit_cell(row, e[1], e[2])
    \/ save_to_csv
    \/ load_from_csv

SpecManualCsv == Init /\ [][ManualCsvNext]_vars

\* A session that sets up the three modes with one layer each, switches
\* between them and runs.
ProjectFlowpathLayer ==
    [selected |-> TRUE, std_fields |-> TRUE, units |-> 2,
     features |-> <<CHOOSE f \in FlowpathFeatures : f.flow_type = Text("Sheet"),
                    CHOOSE f \in FlowpathFeatures :
                        f.flow_type = Text("Shallow Concentrated")>>]

ProjectSubbasinLayer ==
    [selected |-> TRUE, std_fields |-> TRUE, units |-> 2,
     features |-> <<CHOOSE f \in SubbasinFeatures : f.subbasin_id = "SB-001",
                    CHOOSE f \in SubbasinFeatures : f.subbasin_id = "SB-002">>]

ModesNext ==
    \/ \E mode \in Modes : on_mode_changed(mode)
    \/ MethodsTab
    \/ add_row
    \/ set_layer(ProjectFlowpathLayer)
    \/ on_dem_changed(TRUE)
    \/ on_dem_subbasin_changed(ProjectSubbasinLayer)
    \/ AnyTab

SpecModes == Init /\ [][ModesNext]_vars

\* The same session in an installation with or without dem_extraction.py.
AvailabilityInit == PureIdle /\ ToolCreated /\ HAS_DEM_EXTRACTION \in BOOLEAN

AvailabilityNext ==
    \/ \E mode \in Modes : on_mode_changed(mode)
    \/ add_row
    \/ set_layer(ProjectFlowpathLayer)
    \/ on_dem_changed(TRUE)
    \/ on_dem_subbasin_changed(ProjectSubbasinLayer)
    \/ AnyTab

SpecAvailability == AvailabilityInit /\ [][AvailabilityNext]_vars

(***************************************************************************)
(* Claims about the adjustment policy and the calculators.                 *)
(***************************************************************************)

C1_Outcome(s, r) ==
    /\ (s < 0) => (r.slope = 50 /\ r.adjusted /\ r.warning # "None")
    /\ (0 <= s /\ s < 200) => (r.slope = s + 50 /\ r.adjusted /\ r.warning # "None")
    /\ (200 <= s /\ s < 300) => (r.slope = s /\ ~r.adjusted /\ r.warning # "None")
    /\ (s >= 300) => (r.slope = s /\ ~r.adjusted /\ r.warning = "None")

\* C1: both copies of apply_slope_adjustment map a slope s (ft/ft) to exactly
\* one of four outcomes: s < 0 gives (0.0005, adjusted, warning); 0 <= s <
\* 0.002 gives (s + 0.0005, adjusted, warning); 0.002 <= s < 0.003 gives (s,
\* not adjusted, warning); s >= 0.003 gives (s, not adjusted, no warning).
C1_SlopeFourOutcomes ==
    /\ Computed(slope_out) => C1_Outcome(slope_in, slope_out)
    /\ Computed(slope_out_dem) => C1_Outcome(slope_in, slope_out_dem)

\* A low slope (0.0015) adjusted by both copies.
C1_Witness ==
    /\ slope_in = 150
    /\ slope_out.slope = 200 /\ slope_out.adjusted
    /\ slope_out_dem.slope = 200 /\ slope_out_dem.adjusted

\* C2: for every input slope, adverse and zero slopes included, the adjusted
\* slope returned by either copy is never negative.
C2_AdjustedSlopeNeverNegative ==
    /\ Computed(slope_out) => slope_out.slope >= 0
    /\ Computed(slope_out_dem) => slope_out_dem.slope >= 0

\* An adverse slope (-0.001) adjusted by both copies.
C2_Witness ==
    /\ slope_in = -100
    /\ Computed(slope_out) /\ Computed(slope_out_dem)
    /\ slope_out.adjusted /\ slope_out_dem.adjusted

\* The floor the claim states: 5 min paved, 10 min rural/undeveloped, else 6.
C3_StatedFloor(land_type) ==
    IF land_type = "paved" THEN 500
    ELSE IF land_type \in {"rural", "undeveloped"} THEN 1000
    ELSE 600

\* The floors of the two copies, by land-type class (case-insensitive).
C3_FloorTool(land_type) ==
    IF Lower(land_type) \in {"paved", "urban", "impervious", "commercial"} THEN 500
    ELSE IF Lower(land_type) \in {"rural", "undeveloped", "natural", "woods", "forest"}
    THEN 1000
    ELSE 600

C3_FloorDEM(land_type) ==
    IF Lower(land_type) \in {"paved", "urban", "impervious"} THEN 500
    ELSE IF Lower(land_type) \in {"rural", "undeveloped", "natural"} THEN 1000
    ELSE 600

\* C3 as stated: the result of apply_tc_minimum is >= tc and >= the floor,
\* the floor being 5 min for paved, 10 min for rural/undeveloped and 6 min
\* for any other land type.
C3_Original ==
    /\ Computed(tc_out) =>
           /\ ~FLess(tc_out.tc, MinutesF(tc_in))
           /\ ~FLess(tc_out.tc, MinutesF(C3_StatedFloor(land_in)))
    /\ Computed(tc_out_dem) =>
           /\ ~FLess(tc_out_dem.tc, MinutesF(tc_in))
           /\ ~FLess(tc_out_dem.tc, MinutesF(C3_StatedFloor(land_in)))

\* C3 amended: the result of apply_tc_minimum is >= tc and >= the floor of
\* the land type's class, compared case-insensitively: 5 min for paved,
\* urban, impervious (and commercial in tc_calculator_tool), 10 min for
\* rural, undeveloped, natural (and woods, forest in tc_calculator_tool),
\* 6 min for any other land type.
C3_NeverBelowFloor ==
    /\ Computed(tc_out) =>
           /\ ~FLess(tc_out.tc, MinutesF(tc_in))
           /\ ~FLess(tc_out.tc, MinutesF(C3_FloorTool(land_in)))
    /\ Computed(tc_out_dem) =>
           /\ ~FLess(tc_out_dem.tc, MinutesF(tc_in))
           /\ ~FLess(tc_out_dem.tc, MinutesF(C3_FloorDEM(land_in)))

\* A 7 min TC of a rural catchment raised to 10 min by both copies.
C3_Witness ==
    /\ tc_in = 700 /\ land_in = "rural"
    /\ tc_out.adjusted /\ tc_out.tc = MinutesF(1000)
    /\ tc_out_dem.adjusted /\ tc_out_dem.tc = MinutesF(1000)

\* C4: apply_tc_minimum is idempotent: applied again, with the same land
\* type, to the value it returned it yields that value, not adjusted and
\* without a warning.
C4_MinimumIdempotent ==
    /\ Computed(tc_again) =>
           /\ tc_again.tc = tc_out.tc
           /\ ~tc_again.adjusted /\ tc_again.warning = "None"
    /\ Computed(tc_again_dem) =>
           /\ tc_again_dem.tc = tc_out_dem.tc
           /\ ~tc_again_dem.adjusted /\ tc_again_dem.warning = "None"

\* A 3 min TC of a paved catchment, raised to 5 min and applied again.
C4_Witness ==
    /\ tc_in = 300 /\ land_in = "paved"
    /\ tc_out.adjusted /\ Computed(tc_again)
    /\ tc_out_dem.adjusted /\ Computed(tc_again_dem)

\* The catchments of the selected flowpath layer with an attribute that
\* float() cannot read.
C5_BadIds ==
    {flowpath_layer.features[i].subbasin_id :
        i \in {j \in 1 .. Len(flowpath_layer.features) :
                  SegmentRaises(flowpath_layer.features[j])}}

C5_AllIds ==
    {flowpath_layer.features[i].subbasin_id : i \in 1 .. Len(flowpath_layer.features)}

\* C5: a failure in processing one catchment never aborts the batch: in a
\* flowpath run whose inputs passed validation the run completes, every
\* other catchment is in the results, and the failing catchment, if it is
\* reported, carries a warning.
C5_BadCatchmentDoesNotAbort ==
    (/\ run_count > 0 /\ current_mode = "flowpath"
     /\ run_error # "validate_inputs" /\ selected_methods # <<>>
     /\ C5_BadIds # {})
        => /\ run_status = "ok"
           /\ \A id \in C5_AllIds \ C5_BadIds : HasKey(results, id)
           /\ \A id \in C5_BadIds :
                  HasKey(results, id) => Lookup(results, id).warnings # <<>>

\* The inputs of the flowpath mode cannot be acquired: no layer, fields not
\* mapped, or a layer without features.
C6_AcquisitionFailure ==
    \/ ~flowpath_layer.selected
    \/ ~fields_mapped
    \/ Len(flowpath_layer.features) = 0

\* C6: a failure to acquire the inputs makes run() fail before any output
\* file is written and before anything is processed, and a failed run
\* leaves neither output files nor rows in the results table.
C6_FailedRunLeavesNothing ==
    /\ (run_count > 0 /\ current_mode = "flowpath" /\ C6_AcquisitionFailure)
           => (run_status = "failed" /\ results = <<>>)
    /\ run_status = "failed"
           => (output_files = NoOutputFiles /\ results_table = <<>>)

\* The subbasins of the selected layer for which the DEM gives no valid
\* elevation.
C7_NoElevation ==
    {i \in 1 .. Len(dem_subbasin_layer.features) :
        /\ dem_subbasin_layer.features[i].geometry = "ok"
        /\ ~dem_subbasin_layer.features[i].elev_valid}

\* C7: in a DEM run that got through the calculation, a subbasin without a
\* valid elevation has a record whose length is the bounding box diagonal
\* in feet, whose slope is 0.2 % and whose warnings hold the fallback notice.
C7_FallbackOnNoElevation ==
    (run_count > 0 /\ current_mode = "dem" /\ run_error \notin {"validate_inputs", "calculate"})
        => \A i \in C7_NoElevation :
               LET f == dem_subbasin_layer.features[i]
                   rec == Lookup(results, f.subbasin_id)
               IN  /\ HasKey(results, f.subbasin_id)
                   /\ rec.total_length_ft =
                          ToFeet(ISqrt(f.bbox_width * f.bbox_width
                                       + f.bbox_height * f.bbox_height),
                                 dem_subbasin_layer.units)
                   /\ rec.avg_slope_pct = 20
                   /\ \E k \in 1 .. Len(rec.warnings) :
                          rec.warnings[k].text
                              = "DEM extraction failed. Using geometric fallback."

\* C8: a catchment whose total flow length is zero or negative is never
\* reported with a numeric TC of 0: its segment TC is undefined, no method
\* TC of it is 0, no 0 stands in its CSV row, and it carries a warning.
C8_ZeroLengthNotNumericZero ==
    /\ \A i \in 1 .. Len(results) :
           results[i].total_length_ft <= 0 =>
               /\ results[i].tc_segment_min = FNone
               /\ \A k \in 1 .. Len(results[i].comparison_methods) :
                      results[i].comparison_methods[k].tc_minutes # FZero
               /\ results[i].warnings # <<>>
    /\ \A r \in 2 .. Len(output_files.tc_calculations) :
           LET row == output_files.tc_calculations[r]
           IN  (HasKey(results, row.subbasin_id)
                /\ Lookup(results, row.subbasin_id).total_length_ft <= 0)
                   => \A k \in 1 .. Len(row.tcs) : row.tcs[k] # Value(0)

C9_SegmentDegenerate(a) ==
    \/ a.length_ft <= 0
    \/ a.slope_pct <= 0
    \/ a.kind \in {"sheet", "channel", "pipe"} /\ a.mannings_n <= 0
    \/ a.kind = "pipe" /\ a.diameter_ft <= 0

\* C9: every segment calculator and every whole-watershed method returns
\* exactly 0.0, without raising, when length <= 0 or slope <= 0 or (segment
\* calculators) a required roughness or pipe diameter is <= 0.
C9_DegenerateGivesZero ==
    /\ (seg_out # NoFloat /\ C9_SegmentDegenerate(seg_in)) => seg_out = FZero
    /\ (method_out # NoFloat /\ (method_in.length_ft <= 0 \/ method_in.slope_pct <= 0))
           => method_out = FZero

\* A channel segment with Manning's n of 0 and positive length and slope.
C9_Witness ==
    /\ seg_in.kind = "channel" /\ seg_in.mannings_n = 0
    /\ seg_in.length_ft > 0 /\ seg_in.slope_pct > 0
    /\ seg_out = FZero

\* C10: for length > 0 and slope > 0 each of Kirpich, FAA, SCS Lag and Kerby
\* returns a finite, strictly positive TC, whatever CN, C and Manning's n.
C10_MethodsFinitePositive ==
    (method_out # NoFloat /\ method_in.length_ft > 0 /\ method_in.slope_pct > 0)
        => (method_out.kind = "f" /\ method_out.sgn = 1)

(***************************************************************************)
(* Claims about the sheet flow calculators.                                *)
(***************************************************************************)
\* TR-55 equation 3-3 in minutes: 0.007 (n L)^0.8 / (P2^0.5 s^0.4) * 60, with
\* the slope s in ft/ft.
C11_TR55Equation(length_ft, slope_ftft, mannings_n, p2_rainfall) ==
    FMul(FDiv(FMul(FromRat(7, 1000), FPow(FromRat(mannings_n * length_ft, 1000), 8, 10)),
              FMul(FPow(FromRat(p2_rainfall, 10), 5, 10),
                   FPow(FtFtF(slope_ftft), 4, 10))),
         FromRat(60, 1))

\* The slope the calculator of dem_extraction.py computes with.
C11_SlopeDEM(slope_pct) ==
    IF PctToFtFt(slope_pct) < 200 THEN PctToFtFt(slope_pct) + 50
    ELSE PctToFtFt(slope_pct)

\* C11: the sheet flow length is clamped to 300 ft: for a length above 300 ft
\* each sheet flow calculator returns what it returns for 300 ft with the
\* same slope, roughness and P2, and a length of at most 300 ft enters the
\* formula unchanged.
C11_SheetLengthClamped ==
    sheet_out # NoSheetResult =>
        /\ sheet_in.length_ft > 300 =>
               /\ sheet_out.tool = sheet_out.tool_300
               /\ sheet_out.dem = sheet_out.dem_300
               /\ sheet_out.val = sheet_out.val_300
        /\ (/\ 0 < sheet_in.length_ft /\ sheet_in.length_ft <= 300
            /\ sheet_in.slope_pct > 0 /\ sheet_in.mannings_n > 0) =>
               /\ sheet_out.tool =
                      C11_TR55Equation(sheet_in.length_ft, PctToFtFt(sheet_in.slope_pct),
                                        sheet_in.mannings_n, sheet_in.p2_rainfall)
               /\ sheet_out.val = sheet_out.tool
               /\ sheet_out.dem =
                      C11_TR55Equation(sheet_in.length_ft, C11_SlopeDEM(sheet_in.slope_pct),
                                        sheet_in.mannings_n, sheet_in.p2_rainfall)

\* A 500 ft sheet flow segment with the travel time of a 300 ft one.
C11_Witness ==
    /\ sheet_in.length_ft = 500 /\ sheet_in.slope_pct = 200
    /\ sheet_in.mannings_n = 240
    /\ sheet_out.tool.kind = "f" /\ sheet_out.tool.sgn = 1
    /\ sheet_out.tool = sheet_out.tool_300
    /\ sheet_out.dem = sheet_out.dem_300

\* The slope in ft/ft the claim gives the formula: below 0.002 the input
\* slope plus 0.0005, else the input slope.
C20_SlopeUsed(slope_pct) ==
    IF PctToFtFt(slope_pct) < 200 THEN PctToFtFt(slope_pct) + 50
    ELSE PctToFtFt(slope_pct)

\* C20: the sheet flow calculator applies the low-slope adjustment
\* unconditionally: both SegmentTravelTimeCalculator.sheet_flow_time and
\* TR55VelocityDEMCalculator.calculate_sheet_flow_time compute with the
\* input slope plus 0.0005 when the slope is below 0.002 ft/ft and with the
\* input slope when it is not.
C20_SheetLowSlopeAdjusted ==
    (/\ sheet_out # NoSheetResult
     /\ sheet_in.length_ft > 0 /\ sheet_in.slope_pct > 0 /\ sheet_in.mannings_n > 0) =>
        LET expected ==
                C11_TR55Equation(Min(sheet_in.length_ft, 300),
                                  C20_SlopeUsed(sheet_in.slope_pct),
                                  sheet_in.mannings_n, sheet_in.p2_rainfall)
        IN  /\ sheet_out.tool = expected
            /\ sheet_out.dem = expected

(***************************************************************************)
(* Claims about the flowpath (segment layer) mode.                         *)
(***************************************************************************)
\* The travel times of the features of the flowpath layer that carry the
\* id, each computed on its own, in the order of the layer.
C12_OwnTimes(subbasin_id) ==
    LET own == {i \in 1 .. Len(flowpath_layer.features) :
                   flowpath_layer.features[i].subbasin_id = subbasin_id}
        Nth(k) == CHOOSE i \in own : Cardinality({j \in own : j < i}) = k - 1
    IN  [k \in 1 .. Cardinality(own) |->
            TravelTime(Segment(flowpath_layer.features[Nth(k)]), subbasin_id,
                       P2_DEFAULT, NoEntries)]

RECURSIVE C12_Sum(_)
C12_Sum(times) ==
    IF times = <<>> THEN FZero
    ELSE FAdd(C12_Sum(SubSeq(times, 1, Len(times) - 1)), times[Len(times)])

RECURSIVE C12_SegmentCount(_)
C12_SegmentCount(res) ==
    IF res = <<>> THEN 0 ELSE Len(Head(res).segments) + C12_SegmentCount(Tail(res))

\* C12: in a flowpath run that got through the calculation a catchment's
\* segment TC is the sum of the travel times of its own segments, each
\* computed on its own; segments of another catchment add nothing to it,
\* and every feature of the layer is counted in exactly one catchment.
C12_SegmentTcIsSumOfOwnSegments ==
    (run_count > 0 /\ current_mode = "flowpath"
     /\ run_error \notin {"validate_inputs", "calculate"})
        => /\ \A i \in 1 .. Len(flowpath_layer.features) :
                  HasKey(results, flowpath_layer.features[i].subbasin_id)
           /\ \A i \in 1 .. Len(results) :
                  /\ results[i].tc_segment_min
                         = C12_Sum(C12_OwnTimes(results[i].subbasin_id))
                  /\ Len(results[i].segments)
                         = Len(C12_OwnTimes(results[i].subbasin_id))
                  /\ \A j \in 1 .. Len(results) :
                         results[j].subbasin_id = results[i].subbasin_id => j = i
           /\ C12_SegmentCount(results) = Len(flowpath_layer.features)

\* A run over a catchment of two segments, sheet and channel: the segment
\* TC is above the travel time of either.
C12_Witness ==
    /\ run_status = "ok" /\ current_mode = "flowpath"
    /\ Len(results) = 1 /\ Len(results[1].segments) = 2
    /\ FLess(results[1].segments[1].travel_time_min, results[1].tc_segment_min)
    /\ FLess(results[1].segments[2].travel_time_min, results[1].tc_segment_min)

\* The upper-case text the dispatch sees for a Flow_Type value.
C13_Tag(cell) == Upper(IF Falsy(cell) THEN "CHANNEL" ELSE cell.text)

\* The travel time of the channel calculator for the feature, with the
\* hydraulic radius of the default channel geometry.
C13_ChannelTime(feature) ==
    channel_flow_time(feature.length.val, feature.slope.val, feature.mannings_n.val,
                      calc_hydraulic_radius(GLOBAL_DEFAULTS.channel_depth,
                                            GLOBAL_DEFAULTS.channel_width,
                                            GLOBAL_DEFAULTS.side_slope))

C13_Keyworded ==
    {"SHEET", "SHEET FLOW", "SHALLOW CONCENTRATED", "SHALLOW_CONCENTRATED", "PIPE",
     "CONCRETE PIPE"}

C14_OutOfRange(rec) ==
    \/ rec.cn < 50 \/ rec.cn > 95
    \/ rec.avg_slope_pct < 50 \/ rec.avg_slope_pct > 6400
    \/ rec.total_length_ft < 200 \/ rec.total_length_ft > 26000

C14_HasScsLag(rec) ==
    \E k \in 1 .. Len(rec.comparison_methods) :
        rec.comparison_methods[k].method_id = "scs_lag"

\* C14: a catchment whose SCS Lag inputs lie outside the validated range
\* (CN 50..95, slope 0.5..64 %, length 200..26000 ft) carries a warning on
\* its result, and its SCS Lag TC is the formula computed with the given
\* CN, not with a substituted one (stated for catchments with a positive
\* length and slope, for which the formula is evaluated).
C14_OutOfRangeWarnedNotSubstituted ==
    \A i \in 1 .. Len(results) :
        (/\ C14_HasScsLag(results[i]) /\ C14_OutOfRange(results[i])
         /\ results[i].total_length_ft > 0 /\ results[i].avg_slope_pct > 0) =>
            /\ results[i].warnings # <<>>
            /\ SCSLag_cn(results[i].cn) = results[i].cn

\* C15: exactly one mode is active: current_mode is one of the three modes
\* and the legacy flag and the panel shown agree with it; a run dispatches
\* to the adapter of the mode active when it started: every record of its
\* results, every row of the results CSV and every row of the results
\* table belongs to that mode and to that run.
C15_OneModeActive ==
    /\ current_mode \in Modes
    /\ use_flowpath_mode = (current_mode = "flowpath")
    /\ mode_stack = (CASE current_mode = "flowpath" -> 0
                       [] current_mode = "manual" -> 1
                       [] current_mode = "dem" -> 2)
    /\ run_count > 0 =>
           /\ run_mode \in Modes
           /\ \A i \in 1 .. Len(results) : results[i].mode = run_mode
           /\ run_status = "ok" =>
                  /\ Len(output_files.tc_calculations) = Len(results) + 1
                  /\ \A i \in 1 .. Len(results) :
                         /\ output_files.tc_calculations[i + 1].mode = run_mode
                         /\ output_files.tc_calculations[i + 1].subbasin_id
                                = results[i].subbasin_id
                  /\ Len(results_table) = Len(results)
                  /\ \A i \in 1 .. Len(results) :
                         results_table[i].subbasin_id = results[i].subbasin_id

\* A second run, in another mode than the first, succeeded with records.
C15_Witness ==
    /\ run_count = 2 /\ run_status = "ok" /\ run_mode = "manual"
    /\ output_files.tc_segment_details
    /\ Len(results) > 0

\* The method columns of the results CSV of a session that starts with
\* the default selection (line 943) and only unchecks the methods that
\* are not in the set `chosen`.
C16_FreshColumns(chosen) ==
    LET Chosen(m) == m \in chosen
        kept == SelectSeq(<<"kirpich", "scs_lag", "faa", "kerby">>, Chosen)
    IN  [k \in 1 .. Len(kept) |-> MethodColumn(kept[k])]

\* C16: the results CSV depends on the configuration only, not on the GUI
\* actions that led to it: after a run that succeeded the file has one row
\* per catchment of the results and one column per selected method, and
\* its method columns stand in the order they have in the file of any
\* other session with the same set of selected methods.
C16_CsvDependsOnConfigurationOnly ==
    (run_count > 0 /\ run_status = "ok") =>
        LET header == output_files.tc_calculations[1]
            chosen == {selected_methods[k] : k \in 1 .. Len(selected_methods)}
        IN  /\ Len(output_files.tc_calculations) = Len(results) + 1
            /\ Len(header.tcs) = Cardinality(chosen)
            /\ \A r \in 2 .. Len(output_files.tc_calculations) :
                   Len(output_files.tc_calculations[r].tcs) = Cardinality(chosen)
            /\ header.tcs = C16_FreshColumns(chosen)

\* C17: with minimum-TC enforcement enabled no method bypasses it: every
\* per-method TC stored in a record of a DEM-mode run is a real number
\* that is not below the floor of the record's land type.
C17_NoMethodBelowFloor ==
    (run_count > 0 /\ run_mode = "dem" /\ apply_tc_min) =>
        \A i \in 1 .. Len(results) :
            \A k \in 1 .. Len(results[i].comparison_methods) :
                LET tc == results[i].comparison_methods[k].tc_minutes
                IN  /\ IsFloat(tc)
                    /\ ~FLess(tc, MinutesF(DEM_min_tc_of(results[i].land_type)))

\* C18: every record of a manual-mode run has a segment TC that is
\* unavailable (None: neither a number nor 0) and no segments, and holds a
\* TC of every selected method, in the order of the selection; the segment
\* TC cell of its CSV row and of its row in the results table is empty.
C18_ManualHasNoSegmentTc ==
    (run_count > 0 /\ run_mode = "manual") =>
        /\ \A i \in 1 .. Len(results) :
               /\ results[i].tc_segment_min = FNone
               /\ ~IsFloat(results[i].tc_segment_min)
               /\ results[i].segments = <<>>
               /\ Len(results[i].comparison_methods) = Len(selected_methods)
               /\ \A k \in 1 .. Len(selected_methods) :
                      results[i].comparison_methods[k].method_id = selected_methods[k]
        /\ \A r \in 2 .. Len(output_files.tc_calculations) :
               output_files.tc_calculations[r].mode = "manual"
                   => output_files.tc_calculations[r].tc_segment = Blank
        /\ run_status = "ok" =>
               \A i \in 1 .. Len(results_table) : results_table[i].tc_segment = Blank

\* A manual-mode run succeeded with two catchments and three methods.
C18_Witness ==
    /\ run_count > 0 /\ run_mode = "manual" /\ run_status = "ok"
    /\ Len(results) = 2
    /\ Len(results[1].comparison_methods) = 3

\* C19: loading the file save_to_csv wrote yields a table whose data are
\* the saved catchments: the same id, length_ft, slope_pct, cn, c_value and
\* mannings_n for each, in the same row order, and no other row.
C19_CsvRoundTrip ==
    [][load_from_csv => (/\ get_data(manual_table') = csv_saved
                         /\ Len(manual_table') = Len(csv_saved))]_vars

\* A table loaded from a file of two catchments, one with a length typed
\* in before it was saved.
C19_Witness ==
    /\ Len(csv_saved) = 2 /\ Len(manual_table) = 2
    /\ manual_table[1].length_ft = FloatCell(150)
    /\ manual_table[2].cn = FloatCell(75)
    /\ get_data(manual_table) = csv_saved

(***************************************************************************)
(* Claims about the tables, the copies of the methods and the DEM slope.   *)
(***************************************************************************)

\* C21: a geometry value typed in for a catchment is the value
\* get_geometry returns for it, 0 included, whatever the global default;
\* the global default is returned only where no value is present.
C21_CatchmentValueOverridesDefault ==
    \A sb_id \in DOMAIN geometry_table : \A column \in GeometryColumns :
        LET cell == geometry_table[sb_id][column]
            used == get_geometry(geometry_table, sb_id)[column]
        IN  /\ cell.kind = "num" => used = cell.val
            /\ cell.kind = "null" => used = GLOBAL_DEFAULTS[column]
            /\ sb_id \in DOMAIN geometry_shown =>
                   geometry_shown[sb_id] = get_geometry(geometry_table, sb_id)

\* Two TC values are the same float, up to the rounding of the fixed point
\* logarithms (8/1024 of a binary order of magnitude, 0.55 %).
C22_Same(x, y) ==
    /\ x.kind = y.kind /\ x.sgn = y.sgn
    /\ x.lg - y.lg <= 8 /\ y.lg - x.lg <= 8

\* C22: the SCS Lag implementations compute with the slope in percent and
\* return the same TC for the same length, slope and CN: for arguments in
\* the validated range and without adjustments, SCSLagDEMCalculator and
\* scs_lag_tc return what SCSLagMethod returns.
C22_SameTcInEveryCopy ==
    (/\ scs_out # NoScsResult /\ ~scs_in.apply_adjustments
     /\ scs_in.length_ft >= 200 /\ scs_in.slope_pct >= 50
     /\ scs_in.cn >= SCS_MIN_CN /\ scs_in.cn <= SCS_MAX_CN) =>
        /\ C22_Same(scs_out.dem, scs_out.tool)
        /\ C22_Same(scs_out.val, scs_out.tool)

\* The sum, over the features of the layer that carry the id, of the
\* length (weighted FALSE) or of slope times length (weighted TRUE).
RECURSIVE C23_SumOver(_, _, _)
C23_SumOver(features, subbasin_id, weighted) ==
    IF features = <<>> THEN 0
    ELSE (IF Head(features).subbasin_id # subbasin_id THEN 0
          ELSE IF weighted
          THEN FloatOr(Head(features).slope, 0) * FloatOr(Head(features).length, 0)
          ELSE FloatOr(Head(features).length, 0))
         + C23_SumOver(Tail(features), subbasin_id, weighted)

\* C23: in a flowpath run that got through the calculation the length
\* given to the comparison methods of a catchment is the sum of the lengths
\* of exactly its own segments, and the slope given to them is the
\* length-weighted average of the slopes of those segments (to the
\* resolution of the slope, 0.01 %).
C23_WeightedSlopeOverOwnSegments ==
    (run_count > 0 /\ current_mode = "flowpath"
     /\ run_error \notin {"validate_inputs", "calculate"})
        => \A i \in 1 .. Len(results) :
               LET id == results[i].subbasin_id
                   length == C23_SumOver(flowpath_layer.features, id, FALSE)
                   weight == C23_SumOver(flowpath_layer.features, id, TRUE)
                   slope == results[i].avg_slope_pct
               IN  /\ results[i].total_length_ft = length
                   /\ length > 0 => /\ slope * length <= weight
                                    /\ weight < (slope + 1) * length
                   /\ results[i].comparison_methods
                          = ComparisonMethods(selected_methods, length, slope,
                                              results[i].cn, results[i].c_value,
                                              results[i].mannings_n_avg)

\* A run over one catchment of 100 ft at 2 % and 1000 ft at 1 %: the
\* methods are given 1100 ft at 1.09 %.
C23_Witness ==
    /\ run_status = "ok" /\ current_mode = "flowpath"
    /\ \E i \in 1 .. Len(results) :
           /\ Len(results[i].segments) = 2
           /\ results[i].total_length_ft = 1100
           /\ results[i].avg_slope_pct = 109
           /\ Len(results[i].comparison_methods) > 0

\* The second application found the slope as the first one left it: same
\* value, not adjusted, no warning.
C24_Unchanged(first, again) ==
    /\ again.slope = first.slope
    /\ again.adjusted = FALSE
    /\ again.warning = "None"

\* C24: the slope adjustment is idempotent on an output at or above the
\* upper end of the transitional band (0.003 ft/ft): applied to such an
\* output, either copy returns it unchanged, not flagged as adjusted and
\* without a warning.
C24_AdjustSlopeIdempotentAboveBand ==
    /\ (Computed(slope_again) /\ slope_out.slope >= TRANSITIONAL_SLOPE_UPPER)
           => C24_Unchanged(slope_out, slope_again)
    /\ (Computed(slope_again_dem) /\ slope_out_dem.slope >= TRANSITIONAL_SLOPE_UPPER)
           => C24_Unchanged(slope_out_dem, slope_again_dem)

\* Both copies applied twice to a slope whose adjusted value is exactly the
\* upper end of the band.
C24_Witness ==
    /\ Computed(slope_again) /\ Computed(slope_again_dem)
    /\ slope_out.slope = TRANSITIONAL_SLOPE_UPPER
    /\ slope_out_dem.slope = TRANSITIONAL_SLOPE_UPPER
    /\ slope_again.slope = TRANSITIONAL_SLOPE_UPPER

\* The slope the DEM gives for a subbasin, before any adjustment (ft/ft):
\* the elevation difference over the distance from the highest point to
\* the outlet.
C25_RawSlope(feature, units) ==
    ((ToFeet(feature.high_elev, units) - ToFeet(feature.low_elev, units)) * 100)
        \div ToFeet(feature.distance, units)

\* C25: in a DEM run that got through the calculation, the slope of a
\* subbasin whose flowpath was extracted is the raw DEM slope with the
\* adjustment applied once when slope adjustment is enabled (a raw slope
\* below 0.002 is raised by 0.0005), and the raw DEM slope itself when it
\* is disabled.
C25_DEMSlopeAdjustedAtMostOnce ==
    (run_count > 0 /\ run_mode = "dem"
     /\ run_error \notin {"validate_inputs", "calculate"})
        => \A i \in 1 .. Len(dem_subbasin_layer.features) :
               LET f == dem_subbasin_layer.features[i]
                   raw == C25_RawSlope(f, dem_subbasin_layer.units)
                   once == DEM_apply_slope_adjustment(raw).slope
               IN  (f.geometry = "ok" /\ f.elev_valid /\ f.distance > 0)
                       => /\ HasKey(results, f.subbasin_id)
                          /\ Lookup(results, f.subbasin_id).avg_slope_pct
                                 = FtFtToPct(IF apply_slope_adj THEN once ELSE raw)

\* C26: the ids of the manual table stay unique under Add Subbasin, Remove
\* Selected and Clear All when no id cell is edited, so a manual-mode run
\* returns one record for every valid row of the table.
C26_ManualIdsStayUnique ==
    /\ \A i, j \in 1 .. Len(manual_table) :
           manual_table[i].subbasin_id = manual_table[j].subbasin_id => i = j
    /\ (run_count > 0 /\ run_mode = "manual" /\ run_status = "ok")
           => Len(results) = Len(get_data(manual_table))

\* C27: the two copies of the minimum-TC policy agree: for the same TC and
\* the same land type, apply_tc_minimum of tc_calculator_tool and of
\* DEMFlowpathExtractor return the same TC and the same adjusted flag.
C27_MinimumCopiesAgree ==
    (Computed(tc_out) /\ Computed(tc_out_dem))
        => /\ tc_out.tc = tc_out_dem.tc
           /\ tc_out.adjusted = tc_out_dem.adjusted

\* C28: whatever check boxes of the methods tab were toggled,
\* selected_methods holds no id twice and only ids of the four methods, and
\* holds an id exactly when the check box of the method is checked; every
\* record of a run holds exactly one TC for every selected method.
C28_SelectionFollowsCheckboxes ==
    /\ \A i, j \in 1 .. Len(selected_methods) :
           selected_methods[i] = selected_methods[j] => i = j
    /\ \A i \in 1 .. Len(selected_methods) :
           selected_methods[i] \in {"kirpich", "faa", "scs_lag", "kerby"}
    /\ \A method_id \in MethodIds :
           InSeq(method_id, selected_methods) <=> method_checkboxes[method_id]
    /\ run_count > 0 =>
           \A i \in 1 .. Len(results) :
               /\ Len(results[i].comparison_methods) = Len(selected_methods)
               /\ \A method_id \in MethodIds :
                      Cardinality({k \in 1 .. Len(results[i].comparison_methods) :
                                      results[i].comparison_methods[k].method_id
                                          = method_id})
                          = IF method_checkboxes[method_id] THEN 1 ELSE 0

\* A run after two methods were unchecked and one of them checked again:
\* the records hold three TCs, the last of the method checked again.
C28_Witness ==
    /\ run_count > 0 /\ run_status = "ok"
    /\ selected_methods = <<"scs_lag", "kerby", "kirpich">>
    /\ ~method_checkboxes["faa"]
    /\ Len(results) > 0 /\ Len(results[1].comparison_methods) = 3

\* C29: every record of a DEM-mode run that is flagged adjusted carries at
\* least one warning: no slope adjustment and no geometric fallback is
\* silent.
C29_AdjustedRecordsCarryWarnings ==
    (run_count > 0 /\ run_mode = "dem") =>
        \A i \in 1 .. Len(results) :
            results[i].adjusted => Len(results[i].warnings) > 0

\* A DEM run over a subbasin whose low slope was raised and one that fell
\* back to the geometric estimate; both are flagged and carry warnings.
C29_Witness ==
    /\ run_count > 0 /\ run_mode = "dem" /\ run_status = "ok"
    /\ Len(results) = 2
    /\ results[1].adjusted /\ results[1].elev_known
    /\ \E k \in 1 .. Len(results[1].warnings) : results[1].warnings[k].text = "Low slope"
    /\ results[2].adjusted /\ ~results[2].elev_known
    /\ Len(results[2].warnings) > 0

\* C30: after every mode change the derived mode state agrees with
\* current_mode: use_flowpath_mode is true exactly in the flowpath mode,
\* the panel shown is that of the mode (0 flowpath, 1 manual, 2 DEM), and
\* the mode is never the DEM mode in an installation without the DEM
\* extraction module.
C30_DerivedModeStateAgrees ==
    /\ use_flowpath_mode <=> current_mode = "flowpath"
    /\ mode_stack = 0 <=> current_mode = "flowpath"
    /\ mode_stack = 1 <=> current_mode = "manual"
    /\ mode_stack = 2 <=> current_mode = "dem"
    /\ current_mode = "dem" => HAS_DEM_EXTRACTION

\* Without the module: the mode was changed to manual, the manual panel is
\* shown and a run was made in that mode.
C30_Witness ==
    /\ ~HAS_DEM_EXTRACTION
    /\ current_mode = "manual" /\ ~use_flowpath_mode /\ mode_stack = 1
    /\ run_count > 0 /\ run_mode = "manual"

====
